---- MODULE Spec2Model ----
(***************************************************************************)
(* Model of the CNI verification service (server.js): the Semaphore that   *)
(* bounds concurrent jobs, the run() process invoker, and the /verify-id   *)
(* and /ocr request handlers with their two-engine fallback.               *)
(*                                                                         *)
(* Node runs one callback at a time: everything a handler does between two *)
(* awaits is one atomic step.  An action below is the completion of the    *)
(* awaited operation together with the code that runs up to the next await *)
(* (or to the end of the handler, its catch and finally blocks included).  *)
(***************************************************************************)
EXTENDS Integers, Sequences, FiniteSets, TLC

VARIABLES
    sem,        \* the Semaphore object: [max, running, queue]
    req,        \* per client: the state of its request (handler position, workspace, ...)
    arrivals,   \* history: clients in the order of their acquire() calls
    queuedEver, \* history: clients whose tryRun was pushed on the queue
    grants,     \* history: clients in the order their acquire() promise resolved
    proc,       \* one run() invocation: child process, timer, promise
    node        \* one run of a pure function or of an n8n Code node: input, output

vars == <<sem, req, arrivals, queuedEver, grants, proc, node>>

-----------------------------------------------------------------------------
(* Bounds of the model and constants of the program                        *)

\* default of MAX_CONCURRENT_JOBS (the environment may configure another value)
MAX_CONCURRENT_JOBS == 2

\* the capacities new Semaphore(max) is constructed with
MaxCapacity == 2

\* clients of the Semaphore harness (acquire once, release once)
SemClients == 4

\* clients sending one HTTP request each
NumClients == 1

Capacities == 1..MaxCapacity

Range(s) == {s[i] : i \in 1..Len(s)}

\* position of x in the sequence s, 0 when absent
Pos(s, x) == IF x \in Range(s) THEN CHOOSE i \in 1..Len(s) : s[i] = x ELSE 0

-----------------------------------------------------------------------------
(* Semaphore                                                               *)

\* new Semaphore(max): #queue = [], #running = 0
NewSemaphore(max) == [max |-> max, running |-> 0, queue |-> <<>>]

\* A plausible bug: the slot test admits one job too many.
TryRunOffByOne(S, c) ==
    IF S.running <= S.max
    THEN [sem |-> [S EXCEPT !.running = @ + 1], resolved |-> <<c>>]
    ELSE [sem |-> [S EXCEPT !.queue = Append(@, c)], resolved |-> <<>>]

\* tryRun of client c's acquire(): take a slot and resolve the promise with the
\* release handle, or push tryRun itself on the queue.
\* The result is the new Semaphore state and the promises resolved by the call.
TryRun(S, c) ==
    IF S.running < S.max
    THEN [sem |-> [S EXCEPT !.running = @ + 1], resolved |-> <<c>>]
    ELSE [sem |-> [S EXCEPT !.queue = Append(@, c)], resolved |-> <<>>]

\* acquire(): the promise executor runs tryRun synchronously
Acquire(S, c) == TryRun(S, c)

\* A plausible bug: pop() instead of shift() wakes the most recent waiter.
ReleaseHandleLifo(S) ==
    LET S1 == [S EXCEPT !.running = @ - 1]
    IN  IF Len(S1.queue) > 0
        THEN TryRun([S1 EXCEPT !.queue = SubSeq(@, 1, Len(@) - 1)],
                    S1.queue[Len(S1.queue)])
        ELSE [sem |-> S1, resolved |-> <<>>]

\* A plausible bug: the handle frees the slot and forgets the queue.
ReleaseHandleNoWake(S) ==
    [sem |-> [S EXCEPT !.running = @ - 1], resolved |-> <<>>]

\* A plausible bug: the queued tryRun is called before the slot is given back.
ReleaseHandleWakesFirst(S) ==
    IF Len(S.queue) > 0
    THEN LET R == TryRun([S EXCEPT !.queue = Tail(@)], Head(S.queue))
         IN  [sem |-> [R.sem EXCEPT !.running = @ - 1], resolved |-> R.resolved]
    ELSE [sem |-> [S EXCEPT !.running = @ - 1], resolved |-> <<>>]

\* the release handle: #running--, then the first queued tryRun is shifted
\* off the queue and called.
ReleaseHandle(S) ==
    LET S1 == [S EXCEPT !.running = @ - 1]
    IN  IF Len(S1.queue) > 0
        THEN TryRun([S1 EXCEPT !.queue = Tail(@)], Head(S1.queue))
        ELSE [sem |-> S1, resolved |-> <<>>]

\* the requests whose pending acquire() promise a Semaphore call resolved now
\* hold their release handle
Granted(rq, resolved) ==
    [c \in DOMAIN rq |->
        IF c \in Range(resolved) THEN [rq[c] EXCEPT !.slot = "held"] ELSE rq[c]]

\* jobs in flight: acquired and not yet released
Holders == {c \in DOMAIN req : req[c].slot = "held"}
Waiters == {c \in DOMAIN req : req[c].slot = "queued"}

-----------------------------------------------------------------------------
(* Text: a string is a sequence of characters, a JavaScript value is tagged *)

\* the characters of a TLA+ string literal
Chars(s) == [i \in 1..Len(s) |-> SubSeq(s, i, i)]

JNull == [t |-> "null"]
JUndefined == [t |-> "undefined"]
\* a non-empty string whose characters the model does not look at
JText(s) == [t |-> "text", v |-> s]
JStr(s) == [t |-> "str", v |-> s]
JBool(b) == [t |-> "bool", v |-> b]
JNum(n) == [t |-> "num", v |-> n]

\* JavaScript truthiness of a value
Truthy(x) ==
    CASE x.t = "null" -> FALSE
      [] x.t = "undefined" -> FALSE
      [] x.t = "str"  -> x.v # <<>>
      [] x.t = "bool" -> x.v
      [] x.t = "num"  -> x.v # 0
      [] OTHER        -> TRUE

LowerChars == Chars("abcdefghijklmnopqrstuvwxyz")
UpperChars == Chars("ABCDEFGHIJKLMNOPQRSTUVWXYZ")
Digit == Range(Chars("0123456789"))
Upper == Range(UpperChars)
Lower == Range(LowerChars)

\* \s, \w and the classes of the MRZ regular expressions
WhiteSpace == {" ", "\n", "\t"}
WordChar == Digit \cup Upper \cup Lower \cup {"_"}
AlNum == Digit \cup Upper
MrzAlphabet == AlNum \cup {"<"}

\* the degree sign and the masculine ordinal indicator of the label pattern
\* are written ^ and ~ in the texts of the model
Deg == "^"
Ord == "~"

Min(S) == CHOOSE x \in S : \A y \in S : x <= y

ToUpperChar(ch) == IF ch \in Lower THEN UpperChars[Pos(LowerChars, ch)] ELSE ch

\* str.toUpperCase()
ToUpperCase(s) == [i \in 1..Len(s) |-> ToUpperChar(s[i])]

IsNotSpace(ch) == ch \notin WhiteSpace

\* str.replace(/\s/g, "")
StripSpaces(s) == SelectSeq(s, IsNotSpace)

\* str.includes(sub)
Includes(s, sub) ==
    \E i \in 1..(Len(s) - Len(sub) + 1) : SubSeq(s, i, i + Len(sub) - 1) = sub

\* text.split("\n")
RECURSIVE SplitLines(_)
SplitLines(t) ==
    LET nl == {i \in 1..Len(t) : t[i] = "\n"}
    IN  IF nl = {} THEN <<t>>
        ELSE <<SubSeq(t, 1, Min(nl) - 1)>> \o SplitLines(SubSeq(t, Min(nl) + 1, Len(t)))

\* A plausible bug: only the letter O is replaced.
ConfusableOnlyO(ch) == IF ch = "O" THEN "0" ELSE ch

\* the replacements of normalizeMrz: O to 0, I to 1, B to 8
Confusable(ch) ==
    CASE ch = "O" -> "0"
      [] ch = "I" -> "1"
      [] ch = "B" -> "8"
      [] OTHER    -> ch

\* normalizeMrz(str)
normalizeMrz(s) ==
    LET u == StripSpaces(ToUpperCase(s))
    IN  [i \in 1..Len(u) |-> Confusable(u[i])]

\* [0-9]{12} at position m of t
TwelveDigitsAt(t, m) ==
    /\ m >= 1
    /\ m + 11 <= Len(t)
    /\ \A k \in m..(m + 11) : t[k] \in Digit

\* the first position from j on that holds no white space (\s* is greedy)
SkipSpaces(t, j) ==
    LET rest == {k \in j..Len(t) : t[k] \notin WhiteSpace}
    IN  IF rest = {} THEN Len(t) + 1 ELSE Min(rest)

\* /n[o°º s][s°]?\s*:?\s*([0-9]{12})/i tried at position i: the position of the
\* captured digits, 0 when the pattern does not match there
LabelAt(t, i) ==
    IF /\ i + 1 <= Len(t)
       /\ t[i] \in {"n", "N"}
       /\ t[i + 1] \in {"o", "O", Deg, Ord, " ", "s", "S"}
    THEN LET j  == IF i + 2 <= Len(t) /\ t[i + 2] \in {"s", "S", Deg}
                   THEN i + 3 ELSE i + 2
             k  == SkipSpaces(t, j)
             k2 == IF k <= Len(t) /\ t[k] = ":" THEN k + 1 ELSE k
             m  == SkipSpaces(t, k2)
         IN  IF TwelveDigitsAt(t, m) THEN m ELSE 0
    ELSE 0

\* /\b([0-9]{12})\b/ tried at position m
BoundedTwelveAt(t, m) ==
    /\ TwelveDigitsAt(t, m)
    /\ (m = 1 \/ t[m - 1] \notin WordChar)
    /\ (m + 12 > Len(t) \/ t[m + 12] \notin WordChar)

\* the first match of /\b([0-9]{12})\b/ in t, null when there is none
FirstBoundedTwelve(t) ==
    LET ms == {m \in 1..Len(t) : BoundedTwelveAt(t, m)}
    IN  IF ms = {} THEN JNull ELSE JStr(SubSeq(t, Min(ms), Min(ms) + 11))

\* the loop over the lines of extractCardNumberFromText: the first match on a
\* line without "<"
RECURSIVE FirstOnPlainLine(_)
FirstOnPlainLine(lines) ==
    IF lines = <<>> THEN JNull
    ELSE IF "<" \in Range(Head(lines)) THEN FirstOnPlainLine(Tail(lines))
    ELSE IF FirstBoundedTwelve(Head(lines)) # JNull THEN FirstBoundedTwelve(Head(lines))
    ELSE FirstOnPlainLine(Tail(lines))

\* extractCardNumberFromText(text): labelled number, else the first 12-digit
\* word on a line without "<", else the first 12-digit word anywhere
extractCardNumberFromText(text) ==
    LET labelled == {i \in 1..Len(text) : LabelAt(text, i) # 0}
        m        == LabelAt(text, Min(labelled))
        onLine   == FirstOnPlainLine(SplitLines(text))
    IN  IF labelled # {} THEN JStr(SubSeq(text, m, m + 11))
        ELSE IF onLine # JNull THEN onLine
        ELSE FirstBoundedTwelve(text)

\* the test of a cleaned line in extractMrzLine2FromText
LooksLikeMrzLine2(clean) ==
    /\ Len(clean) >= 9
    /\ \A k \in 1..9 : clean[k] \in Digit
    /\ "<" \in Range(clean)
    /\ Len(clean) >= 27
    /\ clean # <<>>
    /\ \A k \in 1..Len(clean) : clean[k] \in MrzAlphabet

\* the last position of the longest run of characters of S that starts at i
\* (i - 1 when t[i] is not in S)
RunEnd(t, i, S) ==
    LET stops == {k \in i..Len(t) : t[k] \notin S}
    IN  IF stops = {} THEN Len(t) ELSE Min(stops) - 1

\* /([0-9]{9,12}[0-9A-Z]{5,}[<][0-9A-Z<]{10,})/ tried at position i: the last
\* position of the match, 0 when the pattern does not match there
ShapeEndAt(t, i) ==
    LET a == RunEnd(t, i, AlNum)
        z == RunEnd(t, a + 2, MrzAlphabet)
    IN  IF /\ i + 8 <= Len(t)
           /\ \A k \in i..(i + 8) : t[k] \in Digit
           /\ a - i + 1 >= 14
           /\ a + 1 <= Len(t)
           /\ t[a + 1] = "<"
           /\ z - (a + 1) >= 10
        THEN z ELSE 0

\* fullClean.matchAll(...): the matches from position from on, left to right
RECURSIVE ShapeMatches(_, _)
ShapeMatches(t, from) ==
    LET starts == {i \in from..Len(t) : ShapeEndAt(t, i) # 0}
    IN  IF starts = {} THEN <<>>
        ELSE LET i == Min(starts)
                 e == ShapeEndAt(t, i)
             IN  <<SubSeq(t, i, e)>> \o ShapeMatches(t, e + 1)

\* sort((a, b) => b[0].length - a[0].length)[0]: the first of the longest
Longest(ms) ==
    LET best == {i \in 1..Len(ms) : \A j \in 1..Len(ms) : Len(ms[j]) <= Len(ms[i])}
    IN  ms[Min(best)]

RECURSIVE FirstMrzLine(_)
FirstMrzLine(lines) ==
    IF lines = <<>> THEN JNull
    ELSE LET clean == ToUpperCase(StripSpaces(Head(lines)))
         IN  IF LooksLikeMrzLine2(clean) THEN JStr(clean)
             ELSE FirstMrzLine(Tail(lines))

\* extractMrzLine2FromText(text)
extractMrzLine2FromText(text) ==
    LET byLine    == FirstMrzLine(SplitLines(text))
        fullClean == ToUpperCase(StripSpaces(text))
        matches   == ShapeMatches(fullClean, 1)
    IN  IF byLine # JNull THEN byLine
        ELSE IF Len(matches) > 0 THEN JStr(Longest(matches))
        ELSE JNull

-----------------------------------------------------------------------------
(* Requests                                                                *)

Tools == {"pdftoppm", "python3", "ocrmypdf", "pdftotext", "pdfinfo"}

\* a client that has not sent its request yet
IdleReq ==
    [pc        |-> "idle",      \* the await the handler is suspended at
     kind      |-> "none",      \* "verify" (/verify-id) or "ocr" (/ocr)
     file      |-> [present |-> FALSE, buffer |-> <<>>],  \* req.file
     debug     |-> FALSE,       \* req.query.debug === "true"
     returnPdf |-> FALSE,       \* req.query.return_pdf === "true"
     slot      |-> "none",      \* acquire() promise: none, queued, held, released
     releases  |-> 0,           \* calls of the release handle
     tmp       |-> "none",      \* workspace: none, exists, removing, removed, leaked
     rmCalls   |-> 0,           \* calls of fs.rm on the workspace
     spawned   |-> [t \in Tools |-> 0],  \* processes spawned per tool
     primary   |-> "none",      \* PassportEye attempt: none, running, success, failed
     peye      |-> 0,           \* index of the result PassportEye printed, 0: none
     text      |-> 0,           \* index of the text read from the OCR output, 0: none
     threw     |-> FALSE,       \* an exception escaped the handler
     resps     |-> <<>>,        \* responses sent
     events    |-> <<>>]        \* history: "response", "release", "rm" calls in order

-----------------------------------------------------------------------------
(* Semaphore harness: every client calls acquire() once and invokes the    *)
(* release handle it was given once.                                       *)

SemInit ==
    /\ sem \in {NewSemaphore(n) : n \in Capacities}
    /\ req = [c \in 1..SemClients |-> IdleReq]
    /\ arrivals = <<>>
    /\ queuedEver = {}
    /\ grants = <<>>
    /\ proc = [state |-> "unused"]
    /\ node = [state |-> "unused"]

SemAcquire(c) ==
    /\ req[c].pc = "idle"
    /\ LET R == Acquire(sem, c)
       IN  /\ sem' = R.sem
           /\ req' = Granted([req EXCEPT ![c].pc = "sem", ![c].slot = "queued"],
                             R.resolved)
           /\ arrivals' = Append(arrivals, c)
           /\ queuedEver' = IF c \in Range(R.sem.queue)
                            THEN queuedEver \cup {c} ELSE queuedEver
           /\ grants' = grants \o R.resolved
    /\ UNCHANGED <<proc, node>>

SemRelease(c) ==
    /\ req[c].pc = "sem"
    /\ req[c].slot = "held"
    /\ LET R == ReleaseHandle(sem)
       IN  /\ sem' = R.sem
           /\ req' = Granted([req EXCEPT ![c].pc = "done", ![c].slot = "released",
                                         ![c].releases = @ + 1],
                             R.resolved)
           /\ grants' = grants \o R.resolved
    /\ UNCHANGED <<arrivals, queuedEver, proc, node>>

SemNext == \E c \in 1..SemClients : SemAcquire(c) \/ SemRelease(c)

SpecSem == SemInit /\ [][SemNext]_vars

\* a client invokes the release handle it has already invoked once: the
\* closure of lines 78-81 keeps no record of having been called
SemReleaseAgain(c) ==
    /\ req[c].pc = "done"
    /\ req[c].releases = 1
    /\ LET R == ReleaseHandle(sem)
       IN  /\ sem' = R.sem
           /\ req' = Granted([req EXCEPT ![c].releases = @ + 1], R.resolved)
           /\ grants' = grants \o R.resolved
    /\ UNCHANGED <<arrivals, queuedEver, proc, node>>

SemReuseNext == \E c \in 1..SemClients :
    SemAcquire(c) \/ SemRelease(c) \/ SemReleaseAgain(c)

\* the Semaphore with callers that may invoke a release handle twice
SpecSemReuse == SemInit /\ [][SemReuseNext]_vars

\* every holder of a slot eventually invokes its release handle
SpecSemFair == SpecSem /\ \A c \in 1..SemClients : WF_vars(SemRelease(c))

-----------------------------------------------------------------------------
(* Claims about the Semaphore                                              *)

\* C1: at no instant are more than N = #max jobs in flight (acquired and not
\* yet released), and the #running counter is exactly that number; with N = 2
\* a third acquire() stays pending while the first two hold their slots.
C1_AtMostNInFlight ==
    /\ Cardinality(Holders) <= sem.max
    /\ sem.running = Cardinality(Holders)

\* three clients have called acquire() on a Semaphore of capacity 2: two hold a
\* slot and the third is still pending
C1_Witness ==
    /\ sem.max = MAX_CONCURRENT_JOBS
    /\ Len(arrivals) = 3
    /\ Cardinality(Holders) = 2
    /\ Cardinality(Waiters) = 1
    /\ arrivals[3] \in Waiters

\* C2: waiters are admitted in arrival order: when a was pushed on the queue
\* and b called acquire() after a, then b's promise resolves only after a's.
C2_FifoAdmission ==
    \A a, b \in DOMAIN req :
        ( /\ a \in queuedEver
          /\ Pos(arrivals, a) < Pos(arrivals, b)
          /\ b \in Range(grants) )
        => ( /\ a \in Range(grants)
             /\ Pos(grants, a) < Pos(grants, b) )

\* two clients waited in the queue, both were admitted, the earlier one first
C2_Witness ==
    \E a, b \in DOMAIN req :
        /\ {a, b} \subseteq queuedEver
        /\ Pos(arrivals, a) < Pos(arrivals, b)
        /\ {a, b} \subseteq Range(grants)
        /\ Pos(grants, a) < Pos(grants, b)

\* C10: no request is dropped: every acquire() that had to wait is eventually
\* resolved, provided every holder eventually invokes its release handle.
C10_EveryAcquireResolves ==
    \A c \in 1..SemClients : (req[c].slot = "queued") ~> (req[c].slot # "queued")

\* all clients but the holders wait in the queue of a Semaphore of capacity 1
C10_Witness ==
    /\ sem.max = 1
    /\ Len(sem.queue) = SemClients - 1
    /\ Cardinality(Waiters) = SemClients - 1

\* C11: invoking a release handle a second time leaves the in-flight count
\* and the waiter queue as the first invocation left them, so that the count
\* still equals the number of holders and the bound N still holds.
C11_SecondReleaseChangesNothing ==
    (\E c \in DOMAIN req : req[c].releases = 2) =>
        /\ sem.running = Cardinality(Holders)
        /\ Len(sem.queue) = Cardinality(Waiters)
        /\ Cardinality(Holders) <= sem.max

\* C30: the limiter is work-conserving: while a request waits in the queue
\* exactly N jobs are in flight, and a release that finds waiters queued
\* admits exactly one of them, the oldest, in the same step.
C30_WorkConserving ==
    /\ [](Len(sem.queue) > 0 =>
            (Cardinality(Holders) = sem.max /\ sem.running = sem.max))
    /\ [][\A c \in DOMAIN req :
            (req[c].slot = "held" /\ req'[c].slot = "released" /\ Len(sem.queue) > 0)
                => /\ Holders' \ Holders = {Head(sem.queue)}
                   /\ sem'.queue = Tail(sem.queue)
                   /\ sem'.running = sem.running]_vars

\* a waiter has been admitted by a release while another request still waits
C30_Witness ==
    /\ Len(sem.queue) > 0
    /\ \E c \in Holders : c \in queuedEver
    /\ \E c \in DOMAIN req : req[c].slot = "released"
    /\ Cardinality(Holders) = sem.max

-----------------------------------------------------------------------------
(* run(cmd, args, {timeoutMs}): one invocation of an external process      *)

\* chunks of output a child writes on each of its streams
MaxChunks == 2

\* the code of the 'close' event: 0, non-zero, or null for a child that a
\* signal ended
ExitCodes == {"0", "1", "null"}

\* the state right after run() returned its promise: child spawned, streams
\* piped, timer armed
SpawnedProc ==
    [state   |-> "spawned",
     timer   |-> "armed",       \* armed, cleared, fired
     killed  |-> FALSE,         \* p.kill("SIGKILL") was called
     out     |-> 0,             \* chunks appended to out
     err     |-> 0,             \* chunks appended to err
     closed  |-> FALSE,         \* the 'close' event was delivered
     errored |-> FALSE,         \* the 'error' event was delivered
     promise |-> "pending",     \* pending, fulfilled, rejected
     result  |-> "none",        \* what the promise settled with
     calls   |-> <<>>,          \* history: every resolve/reject call, in order
     first   |-> "none"]        \* history: the first of close/error/timer

\* resolve(v) or reject(e) of the promise: only the first call settles it
Settle(p, state, result) ==
    [p EXCEPT !.promise = IF p.promise = "pending" THEN state ELSE @,
              !.result  = IF p.promise = "pending" THEN result ELSE @,
              !.calls   = Append(@, result)]

\* bookkeeping of the first terminal event
Seen(p, ev) == [p EXCEPT !.first = IF @ = "none" THEN ev ELSE @]

\* A plausible bug: the timer kills the child and leaves the promise alone.
TimerFiredNoReject(p) ==
    [p EXCEPT !.timer = "fired", !.killed = TRUE]

\* the setTimeout callback: SIGKILL, then reject with the timeout error
TimerFired(p) ==
    Settle([p EXCEPT !.timer = "fired", !.killed = TRUE], "rejected", "timeout")

\* A plausible bug: the exit code is not looked at.
ClosedAnyCode(p, code) ==
    Settle([p EXCEPT !.timer = IF @ = "armed" THEN "cleared" ELSE @,
                     !.closed = TRUE],
           "fulfilled", "success")

\* p.on("close"): clearTimeout, resolve on code 0 and reject otherwise
Closed(p, code) ==
    LET q == [p EXCEPT !.timer = IF @ = "armed" THEN "cleared" ELSE @,
                       !.closed = TRUE]
    IN  IF code = "0"
        THEN Settle(q, "fulfilled", "success")
        ELSE Settle(q, "rejected", "exit")

\* p.on("error"): clearTimeout, reject with the spawn error
Errored(p) ==
    Settle([p EXCEPT !.timer = IF @ = "armed" THEN "cleared" ELSE @,
                     !.errored = TRUE],
           "rejected", "spawn")

RunInit ==
    /\ sem = NewSemaphore(MAX_CONCURRENT_JOBS)
    /\ req = [c \in {} |-> IdleReq]
    /\ arrivals = <<>>
    /\ queuedEver = {}
    /\ grants = <<>>
    /\ proc = SpawnedProc
    /\ node = [state |-> "unused"]

\* p.stdout.on("data"): out += d
OnStdoutData ==
    /\ ~proc.closed
    /\ proc.out < MaxChunks
    /\ proc' = [proc EXCEPT !.out = @ + 1]
    /\ UNCHANGED <<sem, req, arrivals, queuedEver, grants, node>>

\* p.stderr.on("data"): err += d
OnStderrData ==
    /\ ~proc.closed
    /\ proc.err < MaxChunks
    /\ proc' = [proc EXCEPT !.err = @ + 1]
    /\ UNCHANGED <<sem, req, arrivals, queuedEver, grants, node>>

\* the 'close' event, once per child
OnClose ==
    /\ ~proc.closed
    /\ \E code \in ExitCodes :
          proc' = Closed(Seen(proc, IF code = "0" THEN "close0" ELSE "closeN"), code)
    /\ UNCHANGED <<sem, req, arrivals, queuedEver, grants, node>>

\* the 'error' event (the child could not be spawned or signalled)
OnError ==
    /\ ~proc.errored
    /\ ~proc.closed
    /\ proc' = Errored(Seen(proc, "error"))
    /\ UNCHANGED <<sem, req, arrivals, queuedEver, grants, node>>

\* the timeout elapses before the timer was cleared
OnTimer ==
    /\ proc.timer = "armed"
    /\ proc' = TimerFired(Seen(proc, "timer"))
    /\ UNCHANGED <<sem, req, arrivals, queuedEver, grants, node>>

RunNext == OnStdoutData \/ OnStderrData \/ OnClose \/ OnError \/ OnTimer

SpecRun == RunInit /\ [][RunNext]_vars

\* the outcome run() reports for a first terminal event
OutcomeOf(ev) ==
    CASE ev = "close0" -> "success"
      [] ev = "closeN" -> "exit"
      [] ev = "timer"  -> "timeout"
      [] ev = "error"  -> "spawn"
      [] OTHER         -> "none"

\* C7: run() settles with exactly one of success, non-zero exit, timeout and
\* spawn error: the promise is pending until the first of close, error and
\* timer, settles with the outcome of that event (fulfilled for success only),
\* and every later event leaves it as it is.
C7_SettlesOnceByFirstEvent ==
    /\ (proc.first = "none") <=> (proc.promise = "pending")
    /\ proc.result = OutcomeOf(proc.first)
    /\ (proc.promise = "fulfilled") <=> (proc.result = "success")
    /\ proc.calls # <<>> => proc.result = proc.calls[1]

\* the timer fired first, the killed child's close event came later, and the
\* promise is still the timeout failure
C7_Witness ==
    /\ proc.first = "timer"
    /\ Len(proc.calls) = 2
    /\ proc.closed
    /\ proc.result = "timeout"

\* C8: when the timer fires on a process that has neither closed nor errored,
\* the process is sent SIGKILL and the promise is rejected with the timeout
\* failure in the same step: it is never pending once the timer has fired.
C8_TimeoutKillsAndRejects ==
    proc.timer = "fired" =>
        /\ proc.killed
        /\ proc.promise = "rejected"
        /\ proc.result = "timeout"

\* the timer fired on a child that never closed nor errored
C8_Witness ==
    /\ proc.timer = "fired"
    /\ ~proc.closed
    /\ ~proc.errored
    /\ proc.promise = "rejected"

-----------------------------------------------------------------------------
(* Inputs of the request handlers                                          *)

\* PDF_MAGIC: %PDF
PDF_MAGIC == <<37, 80, 68, 70>>

\* A plausible bug: only the first byte of the signature is compared.
isPdfBufferFirstByte(buf) == Len(buf) >= 1 /\ buf[1] = PDF_MAGIC[1]

\* isPdfBuffer(buf)
isPdfBuffer(buf) == Len(buf) >= 4 /\ SubSeq(buf, 1, 4) = PDF_MAGIC

\* uploads: no file field, an empty file, three bytes of the signature, a PNG,
\* a PDF
Uploads ==
    {[present |-> FALSE, buffer |-> <<>>]} \cup
    {[present |-> TRUE, buffer |-> b] :
        b \in {<<>>, <<37, 80, 68>>, <<137, 80, 78, 71, 13>>, <<37, 80, 68, 70, 45>>}}

\* the outcomes of an awaited run(): see SpecRun
RunOutcomes == {"success", "exit", "timeout", "spawn"}

\* the outcomes of an awaited fs call
FsOutcomes == {"ok", "error"}

\* what the PassportEye script prints when it exits with code 0
PeyeResults ==
    << [ok |-> JBool(TRUE), number |-> JStr(Chars("190238151174")),
        all_checksums_ok |-> JBool(TRUE), valid_score |-> JNum(100),
        error |-> JUndefined],
       [ok |-> JBool(TRUE), number |-> JStr(Chars("190238151174")),
        all_checksums_ok |-> JBool(FALSE), valid_score |-> JNum(60),
        error |-> JUndefined],
       [ok |-> JBool(TRUE), number |-> JStr(<<>>),
        all_checksums_ok |-> JBool(FALSE), valid_score |-> JNum(0),
        error |-> JUndefined],
       [ok |-> JBool(FALSE), number |-> JUndefined,
        all_checksums_ok |-> JUndefined, valid_score |-> JUndefined,
        error |-> JText("no_mrz_detected")] >>

\* peyeResult?.error of the stored result (0: readMrzWithPassportEye threw)
PeyeError(i) == IF i = 0 THEN JUndefined ELSE PeyeResults[i].error

\* texts the secondary engine leaves in output.txt
Texts ==
    << <<>>,
       Chars("1902381511747KEVIN<<<<<<<<<<9304301M3"),
       Chars("CARTE NATIONALE\nN^ : 190238151174\nNom: DUPONT"),
       Chars("N^ 880692310285\n1902381511747KEVIN<<<<<<<<<<9304301M3"),
       Chars(" N^ : 190238151174\n1902381511747KEVIN<<<<<<<<<<9304301M3\n"),
       Chars("no 190238151174\n19023815 1I747kevin<<<<<<<<<<9304301m3") >>

\* the texts /ocr is run on in the model
OcrTexts == {1, 3}

TextOf(i) == IF i = 0 THEN <<>> ELSE Texts[i]

\* A plausible bug: the text is not trimmed.
TrimNothing(s) == s

\* str.trim()
Trim(s) ==
    LET keep == {i \in 1..Len(s) : s[i] \notin WhiteSpace}
    IN  IF keep = {} THEN <<>>
        ELSE SubSeq(s, Min(keep), CHOOSE i \in keep : \A j \in keep : j <= i)

-----------------------------------------------------------------------------
(* Responses                                                               *)

\* e.message of a failed step
ErrMsg(step) == [t |-> "errmsg", of |-> step]

Response(status, body) == [status |-> status, body |-> body]

\* A plausible bug: the extracted text is attached whatever the debug flag.
WithRawTextAlways(body, debug, text) == body @@ [raw_text |-> JStr(text)]

\* ...(debug && { raw_text: text })
WithRawText(body, debug, text) ==
    IF debug THEN body @@ [raw_text |-> JStr(text)] ELSE body

MissingFile == Response(400, [error |-> JText("Missing field 'file'")])
NotAPdf == Response(415, [error |-> JText("File does not appear to be a valid PDF")])

\* A plausible bug: the card number no longer decides the primary success.
PrimarySucceededByChecksums(p) == Truthy(p.ok) /\ Truthy(p.all_checksums_ok)

\* peyeResult?.ok && peyeResult.number
PrimarySucceeded(p) == Truthy(p.ok) /\ Truthy(p.number)

\* the 200 response of the primary engine
PrimaryVerified(p) ==
    Response(200,
        [valid |-> JBool(TRUE), method |-> JText("passporteye"),
         card_number |-> p.number,
         mrz_line1 |-> JText("mrz_line1"), mrz_line2 |-> JText("mrz_line2"),
         surname |-> JText("surname"), names |-> JText("names"),
         date_of_birth |-> JText("date_of_birth"),
         expiration_date |-> JText("expiration_date"),
         nationality |-> JText("nationality"), sex |-> JText("sex"),
         all_checksums_ok |-> p.all_checksums_ok,
         valid_score |-> p.valid_score])

\* the 500 response when ocrmypdf fails in the fallback
OcrFailed(debug, peyeError) ==
    Response(500,
        [valid |-> JBool(FALSE), reason |-> JText("ocr_failed"),
         message |-> JText("PassportEye et Tesseract ont tous les deux echoue.")]
        @@ (IF debug
            THEN (IF peyeError # JUndefined
                  THEN [passporteye_error |-> peyeError]
                  ELSE <<>>) @@ [tesseract_error |-> ErrMsg("ocrmypdf")]
            ELSE <<>>))

\* A plausible bug: a missing MRZ line is reported as a server error.
MrzLine2NotFoundAsError(debug, text, cardNumber) ==
    Response(500, [error |-> JText("mrz_line2_not_found")])

CardNumberNotFound(debug, text) ==
    Response(422, WithRawText(
        [valid |-> JBool(FALSE), reason |-> JText("card_number_not_found"),
         message |-> JText("Impossible d'extraire le numero de carte (PassportEye + Tesseract)."),
         method |-> JText("tesseract_fallback")], debug, text))

MrzLine2NotFound(debug, text, cardNumber) ==
    Response(422, WithRawText(
        [valid |-> JBool(FALSE), reason |-> JText("mrz_line2_not_found"),
         message |-> JText("Impossible d'extraire la 2eme ligne MRZ."),
         method |-> JText("tesseract_fallback"),
         card_number |-> cardNumber], debug, text))

CardNumberMrzMismatch(debug, text, cardNumber, mrzLine2) ==
    Response(422, WithRawText(
        [valid |-> JBool(FALSE), reason |-> JText("card_number_mrz_mismatch"),
         message |-> [t |-> "template", v |-> "Numero (1) absent de la MRZ (2).",
                      args |-> <<cardNumber, mrzLine2>>],
         method |-> JText("tesseract_fallback"),
         card_number |-> cardNumber, mrz_line2 |-> mrzLine2], debug, text))

\* A plausible bug: the fallback reports the checksums as passed.
SecondaryVerifiedClaimsChecksums(cardNumber, mrzLine2) ==
    Response(200,
        [valid |-> JBool(TRUE), method |-> JText("tesseract_fallback"),
         card_number |-> cardNumber, mrz_line2 |-> mrzLine2,
         all_checksums_ok |-> JBool(TRUE), valid_score |-> JNull])

\* the 200 response of the fallback
SecondaryVerified(cardNumber, mrzLine2) ==
    Response(200,
        [valid |-> JBool(TRUE), method |-> JText("tesseract_fallback"),
         card_number |-> cardNumber, mrz_line2 |-> mrzLine2,
         all_checksums_ok |-> JNull, valid_score |-> JNull])

\* A plausible bug: the MRZ line is looked for before the card number.
SecondaryChecksMrzFirst(text, debug) ==
    LET cardNumber == extractCardNumberFromText(text)
        mrzLine2   == extractMrzLine2FromText(text)
    IN  IF ~Truthy(mrzLine2) THEN MrzLine2NotFound(debug, text, cardNumber)
        ELSE IF ~Truthy(cardNumber) THEN CardNumberNotFound(debug, text)
        ELSE IF ~Includes(normalizeMrz(mrzLine2.v), normalizeMrz(cardNumber.v))
        THEN CardNumberMrzMismatch(debug, text, cardNumber, mrzLine2)
        ELSE SecondaryVerified(cardNumber, mrzLine2)

\* "Parse Tesseract": the checks of the secondary path on the extracted text
SecondaryChecks(text, debug) ==
    LET cardNumber == extractCardNumberFromText(text)
        mrzLine2   == extractMrzLine2FromText(text)
    IN  IF ~Truthy(cardNumber) THEN CardNumberNotFound(debug, text)
        ELSE IF ~Truthy(mrzLine2) THEN MrzLine2NotFound(debug, text, cardNumber)
        ELSE IF ~Includes(normalizeMrz(mrzLine2.v), normalizeMrz(cardNumber.v))
        THEN CardNumberMrzMismatch(debug, text, cardNumber, mrzLine2)
        ELSE SecondaryVerified(cardNumber, mrzLine2)

\* the checks applied to each text output.txt can hold in the model (0: the
\* empty text of a missing file), with and without debug
ChecksOnText ==
    [i \in 0..Len(Texts), d \in BOOLEAN |-> SecondaryChecks(TextOf(i), d)]

\* the error middleware, reached by a rejection of the handler only where
\* the installed express forwards rejected handler promises (express 5)
UnhandledError == Response(500, [error |-> JText("Internal server error")])

\* catch (e) { res.status(500).json({ error: e.message }) }
Fatal(step) == Response(500, [error |-> ErrMsg(step)])

\* the result of runOcr
OcrResult(text, pageCount, returnPdf) ==
    Response(200,
        [text |-> JStr(Trim(text)), page_count |-> pageCount]
        @@ (IF returnPdf THEN [pdf_base64 |-> JText("pdf_base64")] ELSE <<>>))

-----------------------------------------------------------------------------
(* Steps shared by the handlers                                            *)

Clients == 1..NumClients

Init ==
    /\ sem \in {NewSemaphore(n) : n \in Capacities}
    /\ req = [c \in Clients |-> IdleReq]
    /\ arrivals = <<>>
    /\ queuedEver = {}
    /\ grants = <<>>
    /\ proc = [state |-> "unused"]
    /\ node = [state |-> "unused"]

\* the histories of the Semaphore harness and the run() invocation are not
\* used by the request handlers
Unused == <<arrivals, queuedEver, grants, proc, node>>

\* run(tool, ...): a child process is spawned
Spawn(r, tool) == [r EXCEPT !.spawned[tool] = @ + 1]

Send(r, resp) ==
    [r EXCEPT !.resps = Append(@, resp), !.events = Append(@, "response")]

\* a step of client c's handler that leaves the Semaphore alone
Step(c, r) ==
    /\ req' = [req EXCEPT ![c] = r]
    /\ UNCHANGED <<sem, Unused>>

\* a step of client c's handler in which release() is called
StepWithRelease(c, r) ==
    LET R == ReleaseHandle(sem)
    IN  /\ sem' = R.sem
        /\ req' = Granted([req EXCEPT ![c] = r], R.resolved)
        /\ UNCHANGED Unused

\* const release = await sem.acquire()
StepWithAcquire(c, r) ==
    LET R == Acquire(sem, c)
    IN  /\ sem' = R.sem
        /\ req' = Granted([req EXCEPT ![c] = [r EXCEPT !.pc = "sem", !.slot = "queued"]],
                          R.resolved)
        /\ UNCHANGED Unused

\* the handler resumes with its release handle and calls fs.mkdtemp
SlotGranted(c) ==
    /\ req[c].pc = "sem"
    /\ req[c].slot = "held"
    /\ Step(c, [req[c] EXCEPT !.pc = "mkdtemp"])

\* the fs.rm started by a finally block completes; its failure is swallowed
\* by .catch(() => {})
RmSettled(c) ==
    /\ req[c].tmp = "removing"
    /\ \E o \in FsOutcomes :
          Step(c, [req[c] EXCEPT !.tmp = IF o = "ok" THEN "removed" ELSE "leaked"])

-----------------------------------------------------------------------------
(* POST /verify-id                                                         *)

\* A plausible bug: the finally block releases the slot and forgets fs.rm.
VerifyFinallyNoRm(r) ==
    [r EXCEPT !.pc = "done", !.slot = "released", !.releases = @ + 1,
              !.events = Append(@, "release")]

\* A plausible bug: fs.rm is called first, the slot is released after it.
VerifyFinallyRmFirst(r) ==
    [r EXCEPT !.pc = "done", !.slot = "released", !.releases = @ + 1,
              !.tmp = "removing", !.rmCalls = @ + 1,
              !.events = @ \o <<"rm", "release">>]

\* finally { release(); fs.rm(tmpDir, ...).catch(() => {}) }: the handle is
\* called first, fs.rm is started after it and is not awaited
VerifyFinally(r) ==
    [r EXCEPT !.pc = "done", !.slot = "released", !.releases = @ + 1,
              !.tmp = "removing", !.rmCalls = @ + 1,
              !.events = @ \o <<"release", "rm">>]

\* a response sent inside the try block, then the finally block
VerifyEnd(c, r, resp) == StepWithRelease(c, VerifyFinally(Send(r, resp)))

\* A plausible bug: a failed primary attempt is tried again.
FallbackRetriesPrimary(r) ==
    Spawn([r EXCEPT !.primary = "running", !.pc = "pdftoppm"], "pdftoppm")

\* "Tentative 2": the primary attempt yielded no card number, ocrmypdf is run
Fallback(r) ==
    Spawn([r EXCEPT !.primary = "failed", !.pc = "ocrmypdf"], "ocrmypdf")

\* the request arrives: validation, then acquire()
VerifyIdStart(c) ==
    /\ req[c].pc = "idle"
    /\ \E up \in Uploads, debug \in BOOLEAN :
          LET r == [req[c] EXCEPT !.kind = "verify", !.file = up]
          IN  IF ~up.present
              THEN Step(c, [Send(r, MissingFile) EXCEPT !.pc = "done"])
              ELSE IF ~isPdfBuffer(up.buffer)
              THEN Step(c, [Send(r, NotAPdf) EXCEPT !.pc = "done"])
              ELSE StepWithAcquire(c, [r EXCEPT !.debug = debug])

\* fs.mkdtemp settles; it is awaited before the try block, so its rejection
\* leaves the handler past the catch and the finally: the rejected handler
\* promise is dropped (express 4) or forwarded to the error middleware
\* (express 5), whichever express package.json installs
VerifyMkdtemp(c) ==
    /\ req[c].kind = "verify"
    /\ req[c].pc = "mkdtemp"
    /\ \E o \in FsOutcomes, forwarded \in BOOLEAN :
          IF o = "ok"
          THEN Step(c, [req[c] EXCEPT !.tmp = "exists", !.pc = "writeFile"])
          ELSE LET r == [req[c] EXCEPT !.threw = TRUE, !.pc = "done"]
               IN  Step(c, IF forwarded THEN Send(r, UnhandledError) ELSE r)

\* fs.writeFile(inPdf) settles; on success readMrzWithPassportEye runs pdftoppm
VerifyWriteFile(c) ==
    /\ req[c].kind = "verify"
    /\ req[c].pc = "writeFile"
    /\ \E o \in FsOutcomes :
          IF o = "ok"
          THEN Step(c, Spawn([req[c] EXCEPT !.primary = "running", !.pc = "pdftoppm"],
                             "pdftoppm"))
          ELSE VerifyEnd(c, req[c], Fatal("writeFile"))

\* run("pdftoppm") settles
PeyePdftoppm(c) ==
    /\ req[c].kind = "verify"
    /\ req[c].pc = "pdftoppm"
    /\ \E o \in RunOutcomes :
          IF o = "success"
          THEN Step(c, [req[c] EXCEPT !.pc = "access1"])
          ELSE Step(c, Fallback(req[c]))

\* fs.access of the next candidate name settles
PeyeAccess(c) ==
    /\ req[c].kind = "verify"
    /\ req[c].pc \in {"access1", "access2", "access3"}
    /\ \E o \in FsOutcomes :
          IF o = "ok"
          THEN Step(c, Spawn([req[c] EXCEPT !.pc = "python3"], "python3"))
          ELSE Step(c, [req[c] EXCEPT !.pc = CASE @ = "access1" -> "access2"
                                                [] @ = "access2" -> "access3"
                                                [] OTHER -> "readdir"])

\* fs.readdir settles: a PNG is found, or none, or readdir fails
PeyeReaddir(c) ==
    /\ req[c].kind = "verify"
    /\ req[c].pc = "readdir"
    /\ \E o \in {"png", "none", "error"} :
          IF o = "png"
          THEN Step(c, Spawn([req[c] EXCEPT !.pc = "python3"], "python3"))
          ELSE Step(c, Fallback(req[c]))

\* run("python3") settles and its output is parsed: the primary engine
\* answers, or the fallback starts
PeyePython(c) ==
    /\ req[c].kind = "verify"
    /\ req[c].pc = "python3"
    /\ \/ \E o \in RunOutcomes \ {"success"} : Step(c, Fallback(req[c]))
       \/ \* the output is not JSON
          Step(c, Fallback(req[c]))
       \/ \E i \in 1..Len(PeyeResults) :
             LET p == PeyeResults[i]
                 r == [req[c] EXCEPT !.peye = i]
             IN  IF PrimarySucceeded(p)
                 THEN VerifyEnd(c, [r EXCEPT !.primary = "success"], PrimaryVerified(p))
                 ELSE Step(c, Fallback(r))

\* run("ocrmypdf") of the fallback settles
FallbackOcrmypdf(c) ==
    /\ req[c].kind = "verify"
    /\ req[c].pc = "ocrmypdf"
    /\ \E o \in RunOutcomes :
          IF o = "success"
          THEN Step(c, Spawn([req[c] EXCEPT !.pc = "pdftotext"], "pdftotext"))
          ELSE VerifyEnd(c, req[c], OcrFailed(req[c].debug, PeyeError(req[c].peye)))

\* A plausible bug: no inner try, a failure of pdftotext reaches the outer
\* catch like a failure of ocrmypdf.
FallbackPdftotextFatal(c) ==
    /\ req[c].kind = "verify"
    /\ req[c].pc = "pdftotext"
    /\ \E o \in RunOutcomes :
          IF o = "success"
          THEN Step(c, [req[c] EXCEPT !.pc = "readFile"])
          ELSE VerifyEnd(c, req[c], OcrFailed(req[c].debug, PeyeError(req[c].peye)))

\* run("pdftotext") of the fallback settles: output.txt is read, on failure
\* as the sidecar of ocrmypdf (pc "readSidecar": the read of the catch block
\* after a failed pdftotext)
FallbackPdftotext(c) ==
    /\ req[c].kind = "verify"
    /\ req[c].pc = "pdftotext"
    /\ \E o \in RunOutcomes :
          Step(c, [req[c] EXCEPT !.pc = IF o = "success" THEN "readFile"
                                        ELSE "readSidecar"])

\* fs.readFile(outTxt) settles; with the text the checks run and the handler ends
FallbackReadFile(c) ==
    /\ req[c].kind = "verify"
    /\ req[c].pc = "readFile"
    /\ \/ \E i \in 1..Len(Texts) :
             VerifyEnd(c, [req[c] EXCEPT !.text = i],
                       ChecksOnText[i, req[c].debug])
       \/ Step(c, [req[c] EXCEPT !.pc = "readAgain"])

\* fs.readFile(outTxt).catch(() => "") of the catch block settles, after a
\* failed pdftotext (pc "readSidecar") or a failed first read (pc "readAgain")
FallbackReadSidecar(c) ==
    /\ req[c].kind = "verify"
    /\ req[c].pc \in {"readSidecar", "readAgain"}
    /\ \/ \E i \in 1..Len(Texts) :
             VerifyEnd(c, [req[c] EXCEPT !.text = i],
                       ChecksOnText[i, req[c].debug])
       \/ VerifyEnd(c, req[c], ChecksOnText[0, req[c].debug])

VerifyId(c) ==
    \/ VerifyIdStart(c)
    \/ VerifyMkdtemp(c)
    \/ VerifyWriteFile(c)
    \/ PeyePdftoppm(c)
    \/ PeyeAccess(c)
    \/ PeyeReaddir(c)
    \/ PeyePython(c)
    \/ FallbackOcrmypdf(c)
    \/ FallbackPdftotext(c)
    \/ FallbackReadFile(c)
    \/ FallbackReadSidecar(c)

-----------------------------------------------------------------------------
(* POST /ocr                                                               *)

SUPPORTED_LANGS ==
    {Chars("fra"), Chars("eng"), Chars("deu"), Chars("spa"), Chars("ita"),
     Chars("por"), Chars("nld"), Chars("ara"), Chars("chi_sim"), Chars("chi_tra"),
     Chars("jpn"), Chars("kor"), Chars("rus")}

ToLowerChar(ch) == IF ch \in Upper THEN LowerChars[Pos(UpperChars, ch)] ELSE ch

\* raw.toString().toLowerCase().trim()
sanitizeLang(raw) == Trim([i \in 1..Len(raw) |-> ToLowerChar(raw[i])])

\* req.query.lang || "fra"
LangQueries == {<<>>, Chars("eng"), Chars(" FRA "), Chars("english")}

UnsupportedLang == Response(400, [error |-> ErrMsg("sanitizeLang")])

\* runOcr ends: its finally block starts fs.rm on the workspace it created
RunOcrFinally(r) ==
    [r EXCEPT !.tmp = "removing", !.rmCalls = @ + 1, !.events = Append(@, "rm")]

\* the handler's res.json / catch, then finally { release() }
OcrHandlerEnd(c, r, resp) ==
    StepWithRelease(c, [Send(r, resp) EXCEPT !.pc = "done", !.slot = "released",
                                             !.releases = @ + 1,
                                             !.events = Append(@, "release")])

OcrStart(c) ==
    /\ req[c].pc = "idle"
    /\ \E up \in Uploads, lang \in LangQueries, returnPdf \in BOOLEAN :
          LET r == [req[c] EXCEPT !.kind = "ocr", !.file = up]
          IN  IF ~up.present
              THEN Step(c, [Send(r, MissingFile) EXCEPT !.pc = "done"])
              ELSE IF ~isPdfBuffer(up.buffer)
              THEN Step(c, [Send(r, NotAPdf) EXCEPT !.pc = "done"])
              ELSE IF sanitizeLang(IF lang = <<>> THEN Chars("fra") ELSE lang)
                        \notin SUPPORTED_LANGS
              THEN Step(c, [Send(r, UnsupportedLang) EXCEPT !.pc = "done"])
              ELSE StepWithAcquire(c, [r EXCEPT !.returnPdf = returnPdf])

\* fs.mkdtemp of runOcr settles, inside the handler's try block
OcrMkdtemp(c) ==
    /\ req[c].kind = "ocr"
    /\ req[c].pc = "mkdtemp"
    /\ \E o \in FsOutcomes :
          IF o = "ok"
          THEN Step(c, [req[c] EXCEPT !.tmp = "exists", !.pc = "writeFile"])
          ELSE OcrHandlerEnd(c, req[c], Fatal("mkdtemp"))

OcrWriteFile(c) ==
    /\ req[c].kind = "ocr"
    /\ req[c].pc = "writeFile"
    /\ \E o \in FsOutcomes :
          IF o = "ok"
          THEN Step(c, Spawn([req[c] EXCEPT !.pc = "ocrmypdf"], "ocrmypdf"))
          ELSE OcrHandlerEnd(c, RunOcrFinally(req[c]), Fatal("writeFile"))

OcrOcrmypdf(c) ==
    /\ req[c].kind = "ocr"
    /\ req[c].pc = "ocrmypdf"
    /\ \E o \in RunOutcomes :
          IF o = "success"
          THEN Step(c, Spawn([req[c] EXCEPT !.pc = "pdftotext"], "pdftotext"))
          ELSE OcrHandlerEnd(c, RunOcrFinally(req[c]), Fatal("ocrmypdf"))

OcrPdftotext(c) ==
    /\ req[c].kind = "ocr"
    /\ req[c].pc = "pdftotext"
    /\ \E o \in RunOutcomes :
          Step(c, [req[c] EXCEPT !.pc = IF o = "success" THEN "readFile"
                                        ELSE "readSidecar"])

\* the text is read; pdfinfo is run next
OcrReadFile(c) ==
    /\ req[c].kind = "ocr"
    /\ req[c].pc = "readFile"
    /\ \/ \E i \in OcrTexts :
             Step(c, Spawn([req[c] EXCEPT !.text = i, !.pc = "pdfinfo"], "pdfinfo"))
       \/ Step(c, [req[c] EXCEPT !.pc = "readSidecar"])

OcrReadSidecar(c) ==
    /\ req[c].kind = "ocr"
    /\ req[c].pc = "readSidecar"
    /\ \E i \in OcrTexts \cup {0} :
          Step(c, Spawn([req[c] EXCEPT !.text = i, !.pc = "pdfinfo"], "pdfinfo"))

\* run("pdfinfo") settles: page_count is parsed from a "Pages:" line, and
\* stays null without one or when pdfinfo fails
OcrPdfinfo(c) ==
    /\ req[c].kind = "ocr"
    /\ req[c].pc = "pdfinfo"
    /\ \E pages \in {JNum(1), JNull} :
          IF req[c].returnPdf
          THEN Step(c, [req[c] EXCEPT !.pc = IF pages = JNull THEN "readPdf0"
                                             ELSE "readPdf1"])
          ELSE OcrHandlerEnd(c, RunOcrFinally(req[c]),
                             OcrResult(TextOf(req[c].text), pages, FALSE))

\* fs.readFile(outPdf) settles
OcrReadPdf(c) ==
    /\ req[c].kind = "ocr"
    /\ req[c].pc \in {"readPdf0", "readPdf1"}
    /\ \E o \in FsOutcomes :
          IF o = "ok"
          THEN OcrHandlerEnd(c, RunOcrFinally(req[c]),
                    OcrResult(TextOf(req[c].text),
                              IF req[c].pc = "readPdf1" THEN JNum(1) ELSE JNull, TRUE))
          ELSE OcrHandlerEnd(c, RunOcrFinally(req[c]), Fatal("readFile"))

Ocr(c) ==
    \/ OcrStart(c)
    \/ OcrMkdtemp(c)
    \/ OcrWriteFile(c)
    \/ OcrOcrmypdf(c)
    \/ OcrPdftotext(c)
    \/ OcrReadFile(c)
    \/ OcrReadSidecar(c)
    \/ OcrPdfinfo(c)
    \/ OcrReadPdf(c)

Next == \E c \in Clients : SlotGranted(c) \/ RmSettled(c) \/ VerifyId(c) \/ Ocr(c)

Spec == Init /\ [][Next]_vars

-----------------------------------------------------------------------------
(* Claims about the request handlers                                       *)

Ended(r) == r.pc = "done"

VerifyReqs == {c \in DOMAIN req : req[c].kind = "verify"}

\* the reason of a response, "" when its body has none
ReasonOf(resp) ==
    IF "reason" \in DOMAIN resp.body THEN resp.body.reason.v ELSE ""

MethodOf(resp) ==
    IF "method" \in DOMAIN resp.body THEN resp.body.method.v ELSE ""

\* C3: a request that acquired a limiter slot has released it exactly once
\* when it ends, on every exit path after the acquire (a failure to create the
\* workspace included), and once every request has ended no slot is in use.
C3_SlotReleasedOnEveryExit ==
    /\ \A c \in DOMAIN req :
          (Ended(req[c]) /\ req[c].slot # "none")
              => (req[c].slot = "released" /\ req[c].releases = 1)
    /\ (\A c \in DOMAIN req : Ended(req[c])) => sem.running = 0

\* the primary attempt printed a result with ok = true and a non-empty number
PrimaryYielded(r) ==
    /\ r.peye # 0
    /\ PeyeResults[r.peye].ok = JBool(TRUE)
    /\ PeyeResults[r.peye].number.t = "str"
    /\ PeyeResults[r.peye].number.v # <<>>

\* C4: when PassportEye returns ok = true with a non-empty card number, the
\* request is answered once, 200 with method passporteye and that number, and
\* neither ocrmypdf nor pdftotext is spawned for it.
C4_PrimarySuccessSkipsSecondary ==
    \A c \in VerifyReqs :
        PrimaryYielded(req[c]) =>
            /\ Ended(req[c])
            /\ Len(req[c].resps) = 1
            /\ req[c].resps[1].status = 200
            /\ MethodOf(req[c].resps[1]) = "passporteye"
            /\ req[c].resps[1].body.card_number = PeyeResults[req[c].peye].number
            /\ req[c].spawned["ocrmypdf"] = 0
            /\ req[c].spawned["pdftotext"] = 0

\* PassportEye read a card number whose checksums fail: still the primary answer
C4_Witness ==
    \E c \in VerifyReqs :
        /\ req[c].peye = 2
        /\ Ended(req[c])
        /\ req[c].resps[1].status = 200
        /\ req[c].spawned["python3"] = 1
        /\ req[c].spawned["ocrmypdf"] = 0

\* the primary attempt was started and is over
PrimaryOver(r) ==
    /\ r.spawned["pdftoppm"] >= 1
    /\ r.pc \notin {"pdftoppm", "access1", "access2", "access3", "readdir", "python3"}

\* C5: once the primary attempt is over without ok = true and a non-empty card
\* number (a failed process, no PNG, output that is not JSON, ok false, empty
\* number), ocrmypdf has been spawned exactly once, so no response precedes
\* the secondary attempt; and no tool is spawned twice for one request.
C5_FallbackOnceBeforeAnyResponse ==
    \A c \in VerifyReqs :
        /\ \A t \in Tools : req[c].spawned[t] <= 1
        /\ (PrimaryOver(req[c]) /\ ~PrimaryYielded(req[c]))
              => req[c].spawned["ocrmypdf"] = 1
        /\ (req[c].resps # <<>> /\ req[c].spawned["pdftoppm"] >= 1
                                /\ ~PrimaryYielded(req[c]))
              => req[c].spawned["ocrmypdf"] = 1

\* PassportEye answered ok = false, the fallback ran once and the request is
\* answered from its text
C5_Witness ==
    \E c \in VerifyReqs :
        /\ req[c].peye = 4
        /\ req[c].primary = "failed"
        /\ Ended(req[c])
        /\ Len(req[c].resps) = 1
        /\ req[c].spawned["ocrmypdf"] = 1
        /\ req[c].spawned["pdftotext"] = 1

\* the request was answered from the text of the secondary engine
AnsweredFromText(r) ==
    /\ r.kind = "verify"
    /\ Ended(r)
    /\ r.spawned["pdftotext"] = 1

\* what the two extraction functions find in each text of the model
CardOfText == [i \in 0..Len(Texts) |-> extractCardNumberFromText(TextOf(i))]
MrzOfText == [i \in 0..Len(Texts) |-> extractMrzLine2FromText(TextOf(i))]

\* the MRZ line found in the text contains the card number found in it
ContainedInText ==
    [i \in 0..Len(Texts) |->
        /\ CardOfText[i] # JNull
        /\ MrzOfText[i] # JNull
        /\ Includes(normalizeMrz(MrzOfText[i].v), normalizeMrz(CardOfText[i].v))]

\* C6: in the secondary path the first failing check alone gives the reason:
\* no card number gives card_number_not_found (also without MRZ line 2), a
\* card number without MRZ line 2 gives mrz_line2_not_found with the card
\* number, both without containment give card_number_mrz_mismatch, and
\* otherwise the request is verified.
C6_SecondaryChecksInOrder ==
    \A c \in DOMAIN req :
        AnsweredFromText(req[c]) =>
            LET card == CardOfText[req[c].text]
                mrz  == MrzOfText[req[c].text]
                resp == req[c].resps[1]
            IN  /\ Len(req[c].resps) = 1
                /\ card = JNull =>
                      /\ resp.status = 422
                      /\ ReasonOf(resp) = "card_number_not_found"
                /\ (card # JNull /\ mrz = JNull) =>
                      /\ resp.status = 422
                      /\ ReasonOf(resp) = "mrz_line2_not_found"
                      /\ resp.body.card_number = card
                /\ (card # JNull /\ mrz # JNull /\ ~ContainedInText[req[c].text]) =>
                      /\ resp.status = 422
                      /\ ReasonOf(resp) = "card_number_mrz_mismatch"
                /\ (card # JNull /\ mrz # JNull /\ ContainedInText[req[c].text]) =>
                      /\ resp.status = 200
                      /\ ReasonOf(resp) = ""

\* a text with neither a card number nor an MRZ line 2 was rejected for the
\* card number
C6_Witness ==
    \E c \in DOMAIN req :
        /\ AnsweredFromText(req[c])
        /\ CardOfText[req[c].text] = JNull
        /\ MrzOfText[req[c].text] = JNull
        /\ ReasonOf(req[c].resps[1]) = "card_number_not_found"

\* C9 as stated: after a job has ended its workspace does not exist any more
\* (at most its removal is still under way).
C9_NoWorkspaceAfterJob ==
    \A c \in DOMAIN req :
        Ended(req[c]) => req[c].tmp \in {"none", "removing", "removed"}

\* C9 amended: on every exit path of a job that created a workspace fs.rm is
\* called on it exactly once (not awaited, its failure ignored): when the job
\* has ended the workspace is being removed, is removed, or is left behind by
\* a failed fs.rm; a job without workspace calls no fs.rm.
C9_RemovalStartedOnEveryExit ==
    \A c \in DOMAIN req :
        /\ req[c].rmCalls <= 1
        /\ Ended(req[c]) =>
              \/ req[c].tmp = "none" /\ req[c].rmCalls = 0
              \/ req[c].tmp \in {"removing", "removed", "leaked"} /\ req[c].rmCalls = 1

\* a rejected /verify-id request (422) has ended, its fs.rm failed and the
\* workspace is still there
C9_Witness ==
    \E c \in VerifyReqs :
        /\ Ended(req[c])
        /\ req[c].resps # <<>>
        /\ req[c].resps[1].status = 422
        /\ req[c].rmCalls = 1
        /\ req[c].tmp = "leaked"

-----------------------------------------------------------------------------
(* The MRZ helpers of the n8n Code node (Doctr OCR): checksum              *)

\* longest field passed to the checksum functions in the model
MaxDataLen == 3

\* A plausible bug: the weights are applied in the order 1, 3, 7.
WeightsAscending == <<1, 3, 7>>

\* const weights = [7, 3, 1]
Weights == <<7, 3, 1>>

\* const table = "0123456789ABCDEFGHIJKLMNOPQRSTUVWXYZ"
Table == Chars("0123456789ABCDEFGHIJKLMNOPQRSTUVWXYZ")

\* str.indexOf(c), counted from 0, -1 when absent
IndexOf(str, c) == Pos(str, c) - 1

\* the value of one character in mrzChecksum: "<" is 0, a digit is
\* parseInt(c, 10), anything else table.indexOf(c), and 0 when that is -1
CharVal(c) ==
    LET val == IF c = "<" THEN 0
               ELSE IF c \in Digit THEN IndexOf(Chars("0123456789"), c)
               ELSE IndexOf(Table, c)
    IN  IF val < 0 THEN 0 ELSE val

\* total after the first n rounds of the loop of mrzChecksum
RECURSIVE ChecksumTotal(_, _)
ChecksumTotal(str, n) ==
    IF n = 0 THEN 0
    ELSE ChecksumTotal(str, n - 1) + CharVal(str[n]) * Weights[((n - 1) % 3) + 1]

\* mrzChecksum(str)
mrzChecksum(str) == ChecksumTotal(str, Len(str)) % 10

JNaN == [t |-> "nan"]

RECURSIVE DigitsValue(_)
DigitsValue(ds) ==
    IF ds = <<>> THEN 0
    ELSE 10 * DigitsValue(SubSeq(ds, 1, Len(ds) - 1))
         + IndexOf(Chars("0123456789"), ds[Len(ds)])

\* parseInt(s, 10) of a string: leading white space, an optional sign, then
\* the longest run of digits; NaN when there is none
ParseInt(s) ==
    LET i == SkipSpaces(s, 1)
        signed == i <= Len(s) /\ s[i] \in {"+", "-"}
        d == IF signed THEN i + 1 ELSE i
        e == RunEnd(s, d, Digit)
    IN  IF e < d THEN JNaN
        ELSE JNum((IF signed /\ s[i] = "-" THEN -1 ELSE 1)
                  * DigitsValue(SubSeq(s, d, e)))

\* checksumOk(data, check): mrzChecksum(data) === parseInt(check, 10)
checksumOk(data, check) == JNum(mrzChecksum(data)) = ParseInt(check)

\* the characters the fields are made of in the model: digits, letters, the
\* filler and a character outside the MRZ alphabet
FieldChars == {"0", "3", "9", "A", "Z", "<", "a"}

RECURSIVE StringsUpTo(_, _)
StringsUpTo(A, n) ==
    IF n = 0 THEN {<<>>}
    ELSE LET shorter == StringsUpTo(A, n - 1)
         IN  shorter \cup {Append(x, c) : x \in shorter, c \in A}

\* the birth date of the specimen card, with the fields of its MRZ line
KnownFields == {Chars("930430"), Chars("330627"), Chars("D23145890")}

ChecksumData == StringsUpTo(FieldChars, MaxDataLen) \cup KnownFields

\* check characters: digits, the filler, a letter, two characters, nothing
CheckChars == {<<"0">>, <<"1">>, <<"6">>, <<"9">>, <<"<">>, <<"A">>, <<"1", "2">>, <<>>}

ChecksumInit ==
    /\ sem = NewSemaphore(MAX_CONCURRENT_JOBS)
    /\ req = [c \in {} |-> IdleReq]
    /\ arrivals = <<>>
    /\ queuedEver = {}
    /\ grants = <<>>
    /\ proc = [state |-> "unused"]
    /\ \E d \in ChecksumData, k \in CheckChars :
          node = [state |-> "called", data |-> d, check |-> k,
                  sum |-> -1, ok |-> "none", again |-> "none"]

\* checksumOk(data, check) is evaluated
CallChecksumOk ==
    /\ node.state = "called"
    /\ node' = [node EXCEPT !.state = "returned",
                            !.sum = mrzChecksum(node.data),
                            !.ok = checksumOk(node.data, node.check)]
    /\ UNCHANGED <<sem, req, arrivals, queuedEver, grants, proc>>

\* the same call is made again on the same arguments
CallChecksumOkAgain ==
    /\ node.state = "returned"
    /\ node' = [node EXCEPT !.state = "repeated",
                            !.again = checksumOk(node.data, node.check)]
    /\ UNCHANGED <<sem, req, arrivals, queuedEver, grants, proc>>

ChecksumNext == CallChecksumOk \/ CallChecksumOkAgain

SpecChecksum == ChecksumInit /\ [][ChecksumNext]_vars

\* the value of a character in the ICAO 9303 check digit computation
RefValue(c) ==
    IF c \in Digit THEN CHOOSE n \in 0..9 : Chars("0123456789")[n + 1] = c
    ELSE IF c \in Upper THEN 9 + (CHOOSE k \in 1..26 : UpperChars[k] = c)
    ELSE 0

\* the weight of the position i, counted from 0
RefWeight(i) == CASE i % 3 = 0 -> 7 [] i % 3 = 1 -> 3 [] i % 3 = 2 -> 1

RECURSIVE RefSum(_, _)
RefSum(str, P) ==
    IF P = {} THEN 0
    ELSE LET i == CHOOSE i \in P : TRUE
         IN  RefValue(str[i + 1]) * RefWeight(i) + RefSum(str, P \ {i})

RefChecksum(str) == RefSum(str, 0..(Len(str) - 1)) % 10

\* the check character read as a decimal integer, -1 when it is not one
RefInteger(k) ==
    IF k # <<>> /\ \A i \in 1..Len(k) : k[i] \in Digit
    THEN DigitsValue(k) ELSE -1

\* C20: mrzChecksum is the sum of value(c_i) * [7, 3, 1][i mod 3] modulo 10
\* (digits their value, "<" 0, A-Z 10-35, anything else 0); checksumOk(data, d)
\* is true exactly when that value is d read as an integer, and the same call
\* gives the same answer again.
C20_ChecksumMatchesReference ==
    node.state \in {"returned", "repeated"} =>
        /\ node.sum = RefChecksum(node.data)
        /\ node.ok = (RefChecksum(node.data) = RefInteger(node.check))
        /\ node.state = "repeated" => node.again = node.ok

\* the birth date 930430 has check digit 9 and checksumOk accepted it
C20_Witness ==
    /\ node.state = "returned"
    /\ node.data = Chars("930430")
    /\ node.check = <<"9">>
    /\ node.sum = 9
    /\ node.ok = TRUE

-----------------------------------------------------------------------------
(* The MRZ helpers of the n8n Code node (Doctr OCR): TD1 parser            *)

\* the guillemets « and » are written { and } in the texts of the model
LeftGuillemet == "{"
RightGuillemet == "}"

Max(S) == CHOOSE x \in S : \A y \in S : y <= x

\* str.slice(a, b) with 0 <= a <= b
Slice(str, a, b) == SubSeq(str, a + 1, IF b < Len(str) THEN b ELSE Len(str))

\* str.slice(0, 30).padEnd(30, "<")
Line30(str) ==
    LET cut == Slice(str, 0, 30)
    IN  cut \o [i \in 1..(30 - Len(cut)) |-> "<"]

IsNotFiller(ch) == ch # "<"

\* str.replace(/</g, "")
DropFillers(str) == SelectSeq(str, IsNotFiller)

\* str.replace(/</g, " ").trim()
FillersToSpaces(str) ==
    Trim([i \in 1..Len(str) |-> IF str[i] = "<" THEN " " ELSE str[i]])

IsWordOrFiller(ch) == ch \in WordChar \cup {"<"}

\* normalizeLine(line)
normalizeLine(line) ==
    LET bare == StripSpaces(ToUpperCase(line))
        swap(ch) == IF ch = "O" THEN "0"
                    ELSE IF ch \in {LeftGuillemet, RightGuillemet} THEN "<"
                    ELSE ch
    IN  SelectSeq([i \in 1..Len(bare) |-> swap(bare[i])], IsWordOrFiller)

\* l.length >= 25 && /^[A-Z0-9<]+$/.test(l)
IsCandidate(l) == Len(l) >= 25 /\ \A i \in 1..Len(l) : l[i] \in MrzAlphabet

\* two decimal digits of a number below 100: String(yy).padStart(2, "0")
TwoDigits(n) == <<Table[(n \div 10) + 1], Table[(n % 10) + 1]>>

\* A plausible bug: the year 30 is put in the twentieth century too.
parseMrzDateFrom30(yymmdd) ==
    IF yymmdd = <<>> \/ Len(yymmdd) # 6 THEN JNull
    ELSE LET yy == ParseInt(Slice(yymmdd, 0, 2))
             yyyy == IF yy = JNaN THEN Chars("20NaN")
                     ELSE IF yy.v >= 30 THEN Chars("19") \o TwoDigits(yy.v)
                     ELSE Chars("20") \o TwoDigits(yy.v)
         IN  JStr(yyyy \o <<"-">> \o Slice(yymmdd, 2, 4) \o <<"-">> \o Slice(yymmdd, 4, 6))

\* parseMrzDate(yymmdd)
parseMrzDate(yymmdd) ==
    IF yymmdd = <<>> \/ Len(yymmdd) # 6 THEN JNull
    ELSE LET yy == ParseInt(Slice(yymmdd, 0, 2))
             mm == Slice(yymmdd, 2, 4)
             dd == Slice(yymmdd, 4, 6)
             yyyy == IF yy = JNaN THEN Chars("20NaN")
                     ELSE IF yy.v > 30 THEN Chars("19") \o TwoDigits(yy.v)
                     ELSE Chars("20") \o TwoDigits(yy.v)
         IN  JStr(yyyy \o <<"-">> \o mm \o <<"-">> \o dd)

\* l3.replace(/^([A-Z<]+)<<([A-Z<]*).*/, "$1|$2") and the split on "|": the
\* first group is greedy, it ends before the last "<<" of the leading run of
\* letters and fillers
SplitNames(l3) ==
    LET run == RunEnd(l3, 1, Upper \cup {"<"})
        ends == {g \in 1..(run - 2) : l3[g + 1] = "<" /\ l3[g + 2] = "<"}
    IN  IF ends = {} THEN <<l3, <<>>>>
        ELSE <<SubSeq(l3, 1, Max(ends)), SubSeq(l3, Max(ends) + 3, run)>>

\* A plausible bug: the optional data of line 2 comes first.
compositeDataOptionalFirst(l1, l2) ==
    Slice(l2, 18, 29) \o Slice(l1, 5, 30) \o Slice(l2, 0, 7) \o Slice(l2, 8, 15)

\* const compositeData = l1.slice(5, 30) + l2.slice(0, 7) + l2.slice(8, 15)
\*                       + l2.slice(18, 29)
compositeData(l1, l2) ==
    Slice(l1, 5, 30) \o Slice(l2, 0, 7) \o Slice(l2, 8, 15) \o Slice(l2, 18, 29)

\* the record parseMrzTD1 returns for three consecutive candidate lines
Td1Record(c1, c2, c3) ==
    LET l1 == Line30(c1)
        l2 == Line30(c2)
        l3 == Line30(c3)
        dobRaw == Slice(l2, 0, 6)
        expRaw == Slice(l2, 8, 14)
        dobOk == checksumOk(dobRaw, <<l2[7]>>)
        expOk == checksumOk(expRaw, <<l2[15]>>)
        compositeOk == checksumOk(compositeData(l1, l2), <<l2[30]>>)
        parts == SplitNames(l3)
    IN  [mrz_line1 |-> JStr(l1), mrz_line2 |-> JStr(l2), mrz_line3 |-> JStr(l3),
         card_number |-> JStr(DropFillers(Slice(l1, 5, 14))),
         nationality |-> JStr(DropFillers(Slice(l1, 2, 5))),
         date_of_birth |-> parseMrzDate(dobRaw),
         expiration_date |-> parseMrzDate(expRaw),
         sex |-> JStr(IF l2[8] = "M" THEN <<"M">>
                      ELSE IF l2[8] = "F" THEN <<"F">> ELSE <<"X">>),
         surname |-> JStr(FillersToSpaces(parts[1])),
         names |-> JStr(FillersToSpaces(parts[2])),
         checksums |-> [date_of_birth |-> JBool(dobOk),
                        expiration_date |-> JBool(expOk),
                        composite |-> JBool(compositeOk),
                        all_ok |-> JBool(dobOk /\ expOk /\ compositeOk)]]

\* parseMrzTD1(rawText): the first three consecutive candidates whose first
\* line starts with "ID", null when there is none
parseMrzTD1(rawText) ==
    LET lines == SplitLines(rawText)
        candidates == SelectSeq([i \in 1..Len(lines) |-> normalizeLine(lines[i])],
                                IsCandidate)
        starts == {i \in 1..(Len(candidates) - 2) :
                      Slice(Line30(candidates[i]), 0, 2) = <<"I", "D">>}
    IN  IF starts = {} THEN JNull
        ELSE Td1Record(candidates[Min(starts)], candidates[Min(starts) + 1],
                       candidates[Min(starts) + 2])

-----------------------------------------------------------------------------
(* The n8n Code nodes that normalize the answers of the microservices      *)

\* largest page_count in the answers of the Doctr /ocr endpoint in the model
MaxPages == 2

\* input.f of a JSON object: undefined when the object has no such field
Get(obj, f) == IF f \in DOMAIN obj THEN obj[f] ELSE JUndefined

\* a || b
OrElse(a, b) == IF Truthy(a) THEN a ELSE b

\* the Code node behind /verify-id
VerifyIdNode(input) ==
    IF Truthy(Get(input, "error"))
    THEN [valid |-> JBool(FALSE), reason |-> JText("microservice_error"),
          message |-> input.error]
    ELSE IF Truthy(Get(input, "valid")) /\ Get(input, "method") = JText("passporteye")
    THEN [valid |-> JBool(TRUE), method |-> JText("passporteye"),
          confidence |-> Get(input, "valid_score"),
          all_checksums_ok |-> Get(input, "all_checksums_ok"),
          card_number |-> Get(input, "card_number"),
          surname |-> Get(input, "surname"),
          names |-> Get(input, "names"),
          date_of_birth |-> Get(input, "date_of_birth"),
          expiration_date |-> Get(input, "expiration_date"),
          nationality |-> Get(input, "nationality"),
          sex |-> Get(input, "sex"),
          mrz_line1 |-> Get(input, "mrz_line1"),
          mrz_line2 |-> Get(input, "mrz_line2")]
    ELSE IF Truthy(Get(input, "valid"))
            /\ Get(input, "method") = JText("tesseract_fallback")
    THEN [valid |-> JBool(TRUE), method |-> JText("tesseract_fallback"),
          confidence |-> JNull,
          all_checksums_ok |-> JNull,
          card_number |-> Get(input, "card_number"),
          mrz_line2 |-> Get(input, "mrz_line2"),
          surname |-> JNull, names |-> JNull,
          date_of_birth |-> JNull, expiration_date |-> JNull,
          nationality |-> JNull, sex |-> JNull]
    ELSE [valid |-> JBool(FALSE),
          reason |-> OrElse(Get(input, "reason"), JText("unknown")),
          message |-> OrElse(Get(input, "message"), JText("Validation echouee")),
          card_number |-> OrElse(Get(input, "card_number"), JNull),
          mrz_line2 |-> OrElse(Get(input, "mrz_line2"), JNull)]

\* A plausible bug: a zone whose check digits fail is treated as not found.
DoctrNodeRejectsBadChecksums(input) ==
    IF Truthy(Get(input, "error"))
    THEN [valid |-> JBool(FALSE), reason |-> JText("ocr_service_error"),
          message |-> input.error]
    ELSE
    LET rawText == Trim(OrElse(Get(input, "text"), JStr(<<>>)).v)
        pageCount == IF Get(input, "page_count") \in {JUndefined, JNull}
                     THEN JNull ELSE input.page_count
        mrz == parseMrzTD1(rawText)
    IN  IF rawText = <<>>
        THEN [valid |-> JBool(FALSE), reason |-> JText("empty_ocr_output"),
              message |-> JText("Aucun texte extrait par le moteur OCR"),
              page_count |-> pageCount]
        ELSE IF mrz # JNull /\ mrz.checksums.all_ok.v
        THEN [valid |-> JBool(TRUE), method |-> JText("doctr_mrz"),
              all_checksums_ok |-> mrz.checksums.all_ok,
              confidence |-> IF mrz.checksums.all_ok.v
                             THEN JText("high") ELSE JText("medium"),
              card_number |-> mrz.card_number,
              surname |-> mrz.surname,
              names |-> mrz.names,
              date_of_birth |-> mrz.date_of_birth,
              expiration_date |-> mrz.expiration_date,
              nationality |-> mrz.nationality,
              sex |-> mrz.sex,
              mrz_line1 |-> mrz.mrz_line1,
              mrz_line2 |-> mrz.mrz_line2,
              mrz_line3 |-> mrz.mrz_line3,
              checksums |-> mrz.checksums,
              page_count |-> pageCount,
              raw_text |-> JStr(rawText)]
        ELSE [valid |-> JBool(FALSE), reason |-> JText("mrz_not_found"),
              message |-> JText("MRZ TD1 non detectee dans le texte OCR - traitement manuel requis"),
              page_count |-> pageCount,
              raw_text |-> JStr(rawText)]

\* the Code node behind the Doctr /ocr endpoint
DoctrNode(input) ==
    IF Truthy(Get(input, "error"))
    THEN [valid |-> JBool(FALSE), reason |-> JText("ocr_service_error"),
          message |-> input.error]
    ELSE
    LET rawText == Trim(OrElse(Get(input, "text"), JStr(<<>>)).v)
        pageCount == IF Get(input, "page_count") \in {JUndefined, JNull}
                     THEN JNull ELSE input.page_count
        mrz == parseMrzTD1(rawText)
    IN  IF rawText = <<>>
        THEN [valid |-> JBool(FALSE), reason |-> JText("empty_ocr_output"),
              message |-> JText("Aucun texte extrait par le moteur OCR"),
              page_count |-> pageCount]
        ELSE IF mrz # JNull
        THEN [valid |-> JBool(TRUE), method |-> JText("doctr_mrz"),
              all_checksums_ok |-> mrz.checksums.all_ok,
              confidence |-> IF mrz.checksums.all_ok.v
                             THEN JText("high") ELSE JText("medium"),
              card_number |-> mrz.card_number,
              surname |-> mrz.surname,
              names |-> mrz.names,
              date_of_birth |-> mrz.date_of_birth,
              expiration_date |-> mrz.expiration_date,
              nationality |-> mrz.nationality,
              sex |-> mrz.sex,
              mrz_line1 |-> mrz.mrz_line1,
              mrz_line2 |-> mrz.mrz_line2,
              mrz_line3 |-> mrz.mrz_line3,
              checksums |-> mrz.checksums,
              page_count |-> pageCount,
              raw_text |-> JStr(rawText)]
        ELSE [valid |-> JBool(FALSE), reason |-> JText("mrz_not_found"),
              message |-> JText("MRZ TD1 non detectee dans le texte OCR - traitement manuel requis"),
              page_count |-> pageCount,
              raw_text |-> JStr(rawText)]

\* the answers of /verify-id, with the debug flag of the request
VerifyIdAnswers ==
    {[debug |-> d, resp |-> PrimaryVerified(PeyeResults[i])] :
        d \in BOOLEAN, i \in {j \in 1..Len(PeyeResults) : PrimarySucceeded(PeyeResults[j])}}
    \cup {[debug |-> d, resp |-> SecondaryChecks(TextOf(t), d)] :
        d \in BOOLEAN, t \in 0..Len(Texts)}
    \cup {[debug |-> d, resp |-> OcrFailed(d, PeyeError(i))] :
        d \in BOOLEAN, i \in 0..Len(PeyeResults)}
    \cup {[debug |-> d, resp |-> r] :
        d \in BOOLEAN, r \in {Fatal("writeFile"), UnhandledError, MissingFile, NotAPdf}}

\* texts the Doctr worker reads: nothing, blank, no MRZ, a TD1 zone with
\* correct check digits, the same zone with blanks, lower case and guillemets
\* inside other text, a zone whose document number is all fillers, a zone
\* with a wrong check digit, candidate lines without the ID line, and a zone
\* of lines cut after 25 characters
DoctrTexts ==
    << <<>>,
       Chars(" \n "),
       Chars("CARTE NATIONALE D'IDENTITE\nNom: MARTIN\nPrenom: ANNE"),
       Chars("IDFRAD231458907<<<<<<<<<<<<<<<\n9304309M3306275FRA<<<<<<<<<<<8\nMARTIN<<ANNE<MARIE<<<<<<<<<<<<"),
       Chars("REPUBLIQUE FRANCAISE\nidfra d23145890 7<<<<<<<<<<<<<<<\n9304309M3306275FRA<<<<<<<<<<<8\nMARTIN{}ANNE<MARIE<<<<<<<<<<<<\n"),
       Chars("IDFRA<<<<<<<<<<<<<<<<<<<<<<<<<\n9304309M3306275FRA<<<<<<<<<<<8\nMARTIN<<ANNE<MARIE<<<<<<<<<<<<"),
       Chars("IDFRAD231458907<<<<<<<<<<<<<<<\n9304301M3306275FRA<<<<<<<<<<<8\nDUPONT<<JEAN<<<<<<<<<<<<<<<<<<"),
       Chars("9304309M3306275FRA<<<<<<<<<<<8\nMARTIN<<ANNE<MARIE<<<<<<<<<<<<\nXXXXXXXXXXXXXXXXXXXXXXXXXXXXXX"),
       Chars("IDFRAD231458907<<<<<<<<<<\n9304309F3306275FRA<<<<<<<<<\nLE<GALL<<YVES<<MARIE<<<<<") >>

\* the answers of the Doctr /ocr endpoint: { text, page_count } or { error }
DoctrAnswers ==
    {[text |-> JStr(DoctrTexts[t]), page_count |-> n] :
        t \in 1..Len(DoctrTexts), n \in {JNull} \cup {JNum(k) : k \in 1..MaxPages}}
    \cup {[error |-> ErrMsg("python3")], [error |-> JText("Missing field 'file'")]}

N8nInit ==
    /\ sem = NewSemaphore(MAX_CONCURRENT_JOBS)
    /\ req = [c \in {} |-> IdleReq]
    /\ arrivals = <<>>
    /\ queuedEver = {}
    /\ grants = <<>>
    /\ proc = [state |-> "unused"]
    /\ \/ \E a \in VerifyIdAnswers, t \in -1..Len(Texts) :
             \* text: the OCR text the secondary path made the answer from,
             \* -1 for an answer that was not made from a text
             /\ t >= 0 => a.resp = ChecksOnText[t, a.debug]
             /\ t = -1 => \A u \in 0..Len(Texts) : a.resp # ChecksOnText[u, a.debug]
             /\ node = [state |-> "called", kind |-> "verify-id", debug |-> a.debug,
                        status |-> a.resp.status, input |-> a.resp.body,
                        text |-> t, output |-> JUndefined]
       \/ \E a \in DoctrAnswers :
             node = [state |-> "called", kind |-> "doctr", debug |-> FALSE,
                     status |-> IF "error" \in DOMAIN a THEN 500 ELSE 200,
                     input |-> a, text |-> -1, output |-> JUndefined]

\* the Code node behind /verify-id runs on items[0].json
RunVerifyIdNode ==
    /\ node.state = "called"
    /\ node.kind = "verify-id"
    /\ node' = [node EXCEPT !.state = "returned", !.output = VerifyIdNode(node.input)]
    /\ UNCHANGED <<sem, req, arrivals, queuedEver, grants, proc>>

\* the Code node behind the Doctr /ocr endpoint runs on items[0].json
RunDoctrNode ==
    /\ node.state = "called"
    /\ node.kind = "doctr"
    /\ node' = [node EXCEPT !.state = "returned", !.output = DoctrNode(node.input)]
    /\ UNCHANGED <<sem, req, arrivals, queuedEver, grants, proc>>

N8nNext == RunVerifyIdNode \/ RunDoctrNode

SpecN8n == N8nInit /\ [][N8nNext]_vars

-----------------------------------------------------------------------------
(* Claims about the records of the verification                            *)

\* every answer a /verify-id request gets in Spec is one of VerifyIdAnswers
AnswersOfHandlerAreNodeInputs ==
    \A c \in VerifyReqs : \A i \in 1..Len(req[c].resps) :
        [debug |-> req[c].debug, resp |-> req[c].resps[i]] \in VerifyIdAnswers

Returned == node.state = "returned"

IsVerified(rec) == Get(rec, "valid") = JBool(TRUE)

\* C12: every record with valid: true carries a non-empty card_number,
\* whichever method produced it (passporteye, tesseract_fallback, doctr_mrz),
\* in the answer of /verify-id and in the output of the Code nodes.
C12_VerifiedCarriesCardNumber ==
    /\ (node.kind = "verify-id" /\ IsVerified(node.input)) =>
          /\ Get(node.input, "card_number").t = "str"
          /\ node.input.card_number.v # <<>>
    /\ (Returned /\ IsVerified(node.output)) =>
          /\ Get(node.output, "card_number").t = "str"
          /\ node.output.card_number.v # <<>>

IsSecondary(rec) ==
    IsVerified(rec) /\ Get(rec, "method") = JText("tesseract_fallback")

\* C13: a verified record of the secondary method carries all_checksums_ok =
\* null and a null score (valid_score in the answer of /verify-id, confidence
\* after the Code node), never a boolean and never a number.
C13_SecondaryHasNoChecksums ==
    node.kind = "verify-id" =>
        /\ IsSecondary(node.input) =>
              /\ Get(node.input, "all_checksums_ok") = JNull
              /\ Get(node.input, "valid_score") = JNull
        /\ (Returned /\ (IsSecondary(node.input) \/ IsSecondary(node.output))) =>
              /\ IsSecondary(node.output)
              /\ Get(node.output, "all_checksums_ok") = JNull
              /\ Get(node.output, "confidence") = JNull

\* the Code node has normalized a 200 answer of the fallback
C13_Witness ==
    /\ Returned
    /\ node.kind = "verify-id"
    /\ node.status = 200
    /\ IsSecondary(node.input)
    /\ IsSecondary(node.output)
    /\ node.output.card_number = JStr(Chars("190238151174"))

\* C14: every record with valid: true has the field names of the record of
\* the primary method, a field the method cannot supply being null and not
\* left out: in the 200 answer of /verify-id and in the output of its Code
\* node.
C14_VerifiedRecordsHaveOneShape ==
    node.kind = "verify-id" =>
        /\ IsVerified(node.input) =>
              DOMAIN node.input = DOMAIN PrimaryVerified(PeyeResults[1]).body
        /\ (Returned /\ IsVerified(node.output)) =>
              DOMAIN node.output
                  = DOMAIN VerifyIdNode(PrimaryVerified(PeyeResults[1]).body)

\* C17 as stated: without the debug flag no output exposes raw_text, neither
\* an answer of /verify-id nor a record of the Code nodes (the Doctr endpoint
\* and its node have no debug flag: none of their runs requested it).
C17_RawTextOnlyOnDebug ==
    ~node.debug =>
        /\ "raw_text" \notin DOMAIN node.input
        /\ Returned => "raw_text" \notin DOMAIN node.output

\* C17 amended: an answer of /verify-id carries raw_text only when debug=true
\* was requested (and then only in a 422 rejection), and its Code node never
\* forwards it; the Code node of the Doctr endpoint has no debug flag and
\* attaches the trimmed text as raw_text to every record made from a
\* non-empty text (doctr_mrz and mrz_not_found), to no other record.
C17_RawTextOfEachPath ==
    /\ node.kind = "verify-id" =>
          /\ "raw_text" \in DOMAIN node.input => (node.debug /\ node.status = 422)
          /\ Returned => "raw_text" \notin DOMAIN node.output
    /\ (node.kind = "doctr" /\ Returned) =>
          LET text == IF "text" \in DOMAIN node.input
                      THEN Trim(node.input.text.v) ELSE <<>>
          IN  IF text # <<>>
              THEN Get(node.output, "raw_text") = JStr(text)
              ELSE "raw_text" \notin DOMAIN node.output

\* the Doctr node found no MRZ in a text and returns the text, no debug flag
\* having been given
C17_Witness ==
    /\ Returned
    /\ node.kind = "doctr"
    /\ ~node.debug
    /\ Get(node.output, "reason") = JText("mrz_not_found")
    /\ Get(node.output, "raw_text") = JStr(DoctrTexts[3])

-----------------------------------------------------------------------------
(* Claims about validation and errors of the handlers                      *)

\* the upload does not begin with the four bytes % P D F
LacksSignature(buf) ==
    \/ Len(buf) < 4
    \/ <<buf[1], buf[2], buf[3], buf[4]>> # <<37, 80, 68, 70>>

Untouched(r) ==
    /\ r.slot = "none"
    /\ r.releases = 0
    /\ r.tmp = "none"
    /\ r.rmCalls = 0
    /\ \A t \in Tools : r.spawned[t] = 0

RejectedNotPdf(r) ==
    /\ r.pc = "done"
    /\ Len(r.resps) = 1
    /\ r.resps[1].status = 415

\* C15: a /verify-id or /ocr request whose file does not begin with %PDF
\* (shorter files included) is answered 415 and nothing else happens: no slot
\* is acquired, no workspace created, no process spawned, and the step that
\* rejects it leaves the Semaphore as it was.
C15_NotPdfRejectedBeforeProcessing ==
    /\ [](\A c \in DOMAIN req :
            (req[c].kind # "none" /\ req[c].file.present
                                  /\ LacksSignature(req[c].file.buffer))
                => (RejectedNotPdf(req[c]) /\ Untouched(req[c])))
    /\ [][\A c \in DOMAIN req :
            (req[c].pc = "idle" /\ RejectedNotPdf(req'[c])) => sem' = sem]_vars

\* /ocr was sent the first three bytes of the signature and answered 415
C15_Witness ==
    \E c \in DOMAIN req :
        /\ req[c].kind = "ocr"
        /\ req[c].file.buffer = <<37, 80, 68>>
        /\ RejectedNotPdf(req[c])
        /\ sem.running = 0

\* upper case, white space removed, then O read as 0, I as 1 and B as 8
RefNormalize(str) ==
    LET up(ch) == IF \E k \in 1..26 : LowerChars[k] = ch
                  THEN UpperChars[CHOOSE k \in 1..26 : LowerChars[k] = ch]
                  ELSE ch
        digit(ch) == CASE ch = "O" -> "0" [] ch = "I" -> "1" [] ch = "B" -> "8"
                       [] OTHER -> ch
        kept == SelectSeq(str, LAMBDA ch : ch \notin WhiteSpace)
    IN  [i \in 1..Len(kept) |-> digit(up(kept[i]))]

\* needle occurs in hay
RefIsSubstring(hay, needle) ==
    \E k \in 0..(Len(hay) - Len(needle)) :
        \A i \in 1..Len(needle) : hay[k + i] = needle[i]

\* for each text: the normalised card number found in it occurs in the
\* normalised MRZ line 2 found in it
RefContained ==
    [i \in 0..Len(Texts) |->
        /\ CardOfText[i] # JNull
        /\ MrzOfText[i] # JNull
        /\ RefIsSubstring(RefNormalize(MrzOfText[i].v), RefNormalize(CardOfText[i].v))]

\* C28: the secondary path of /verify-id answers Verified only when the
\* normalised card number (upper case, white space removed, O to 0, I to 1,
\* B to 8) is a substring of the normalised MRZ line 2; when both were found
\* and it is not, the answer is 422 card_number_mrz_mismatch.
C28_VerifiedOnlyIfContained ==
    \A c \in VerifyReqs :
        AnsweredFromText(req[c]) =>
            LET resp == req[c].resps[1]
                t == req[c].text
            IN  /\ (resp.status = 200 /\ MethodOf(resp) = "tesseract_fallback")
                      <=> RefContained[t]
                /\ (CardOfText[t] # JNull /\ MrzOfText[t] # JNull /\ ~RefContained[t]) =>
                      /\ resp.status = 422
                      /\ ReasonOf(resp) = "card_number_mrz_mismatch"
                      /\ Get(resp.body, "valid") = JBool(FALSE)

\* the MRZ line holds the card number only after I is read as 1: Verified
C28_Witness ==
    \E c \in VerifyReqs :
        /\ AnsweredFromText(req[c])
        /\ req[c].text = 6
        /\ RefContained[6]
        /\ ~RefIsSubstring(MrzOfText[6].v, CardOfText[6].v)
        /\ req[c].resps[1].status = 200

\* C31: in the secondary path of /verify-id, once ocrmypdf has succeeded, a
\* failure of pdftotext (non-zero exit, timeout, spawn error) never gives a
\* 500: the step in which run("pdftotext") settles sends no response and goes
\* on to a read of output.txt, the read of the sidecar after a failure ends
\* with the answer of the checks on the text read, 200 or 422, and with 422
\* card_number_not_found on the empty text of an unreadable sidecar; a 500
\* with the reason ocr_failed is given for a failure of ocrmypdf alone.
C31_ExtractorFailureUsesSidecar ==
    /\ [](\A c \in VerifyReqs :
            /\ req[c].pc = "readSidecar" =>
                  /\ req[c].spawned["ocrmypdf"] = 1
                  /\ req[c].spawned["pdftotext"] = 1
                  /\ req[c].resps = <<>>
            /\ \A i \in 1..Len(req[c].resps) :
                  ReasonOf(req[c].resps[i]) = "ocr_failed" =>
                      /\ req[c].resps[i].status = 500
                      /\ req[c].spawned["ocrmypdf"] = 1
                      /\ req[c].spawned["pdftotext"] = 0)
    /\ [][\A c \in VerifyReqs :
            /\ (req[c].pc = "pdftotext" /\ req'[c].pc # "pdftotext") =>
                  /\ req'[c].pc \in {"readFile", "readSidecar"}
                  /\ req'[c].resps = <<>>
            /\ (req[c].pc = "readSidecar" /\ req'[c].pc # "readSidecar") =>
                  /\ Ended(req'[c])
                  /\ Len(req'[c].resps) = 1
                  /\ req'[c].resps[1] = ChecksOnText[req'[c].text, req[c].debug]
                  /\ req'[c].resps[1].status \in {200, 422}
                  /\ req'[c].text = 0 =>
                        /\ req'[c].resps[1].status = 422
                        /\ ReasonOf(req'[c].resps[1]) = "card_number_not_found"]_vars

\* pdftotext has failed after a successful ocrmypdf: the handler reads the
\* sidecar, it has not answered and holds its slot and workspace
C31_Witness ==
    \E c \in VerifyReqs :
        /\ req[c].pc = "readSidecar"
        /\ req[c].spawned["pdftotext"] = 1
        /\ req[c].resps = <<>>
        /\ req[c].slot = "held"
        /\ req[c].tmp = "exists"

\* C24 as stated: within one /verify-id job the slot is not released before
\* the workspace of the job has been removed.
C24_WorkspaceRemovedBeforeRelease ==
    \A c \in VerifyReqs :
        req[c].slot = "released" => req[c].tmp \in {"none", "removed"}

\* C24, amended: within one /verify-id job that got a workspace the order is:
\* response sent, release handle called, fs.rm started, all in one turn; the
\* removal ends in a later turn, so the slot is free (and a waiter admitted
\* by the release) while the workspace still exists.
C24_ReleaseThenRemoval ==
    /\ [](\A c \in VerifyReqs :
            req[c].slot = "released" =>
                /\ req[c].events = <<"response", "release", "rm">>
                /\ req[c].tmp \in {"removing", "removed", "leaked"})
    /\ [][\A c \in VerifyReqs :
            /\ (req[c].slot = "held" /\ req'[c].slot = "released")
                  => (req[c].tmp = "exists" /\ req'[c].tmp = "removing")
            /\ (req[c].tmp = "removing" /\ req'[c].tmp # "removing")
                  => req[c].slot = "released"]_vars

\* the slot is free and the removal of the workspace has not ended
C24_Witness ==
    \E c \in VerifyReqs :
        /\ req[c].slot = "released"
        /\ sem.running = 0
        /\ req[c].tmp = "removing"
        /\ req[c].events = <<"response", "release", "rm">>

ExtractionReasons ==
    {"card_number_not_found", "mrz_line2_not_found", "card_number_mrz_mismatch"}

\* the text lacks a card number, an MRZ line 2, or the line lacks the number
ExtractionFails(i) == ~ContainedInText[i]

\* C16: every extraction failure of /verify-id is answered 422, never 500, and
\* every 422 body has valid: false, one of the three reasons and a message.
C16_ExtractionFailureIs422 ==
    \A c \in VerifyReqs :
        /\ (AnsweredFromText(req[c]) /\ ExtractionFails(req[c].text)) =>
              /\ Len(req[c].resps) = 1
              /\ req[c].resps[1].status = 422
        /\ \A i \in 1..Len(req[c].resps) :
              req[c].resps[i].status = 422 =>
                  /\ Get(req[c].resps[i].body, "valid") = JBool(FALSE)
                  /\ ReasonOf(req[c].resps[i]) \in ExtractionReasons
                  /\ Truthy(Get(req[c].resps[i].body, "message"))

\* the card number read from the text is not in its MRZ line: 422 mismatch
C16_Witness ==
    \E c \in VerifyReqs :
        /\ AnsweredFromText(req[c])
        /\ req[c].text = 4
        /\ req[c].resps[1].status = 422
        /\ ReasonOf(req[c].resps[1]) = "card_number_mrz_mismatch"

\* C18: with debug not requested, no response body carries the error message
\* of a failed process invocation.
C18_NoProcessErrorInBody ==
    \A c \in DOMAIN req : \A i \in 1..Len(req[c].resps) :
        ~req[c].debug =>
            \A f \in DOMAIN req[c].resps[i].body :
                req[c].resps[i].body[f] \notin {ErrMsg(t) : t \in Tools}

\* C19: a /verify-id request that passed validation and ended got exactly one
\* response, and that response is a 500 when the workspace could not be
\* created or the input file could not be written.
C19_ExceptionGivesOne500 ==
    \A c \in VerifyReqs :
        (Ended(req[c]) /\ req[c].slot # "none") =>
            /\ Len(req[c].resps) = 1
            /\ (req[c].tmp = "none" \/ req[c].spawned["pdftoppm"] = 0)
                  => req[c].resps[1].status = 500

-----------------------------------------------------------------------------
(* Claims about the normalization of the OCR text                          *)

\* the text has no character other than white space
RefBlank(text) == \A i \in 1..Len(text) : text[i] \in WhiteSpace

\* the Doctr endpoint answered with a text that is blank
DoctrReadNothing ==
    /\ Returned
    /\ node.kind = "doctr"
    /\ ~Truthy(Get(node.input, "error"))
    /\ RefBlank(node.input.text.v)

\* /verify-id answered from a text of the secondary engine that is blank
VerifyIdReadNothing ==
    /\ Returned
    /\ node.kind = "verify-id"
    /\ node.text >= 0
    /\ RefBlank(TextOf(node.text))

\* C23 as stated: an OCR text that is empty after trimming is rejected with
\* the reason empty_ocr_output before any extraction, in the Doctr Code node
\* and in the secondary path of /verify-id.
C23_EmptyTextIsEmptyOcrOutput ==
    /\ DoctrReadNothing =>
          /\ node.output.valid = JBool(FALSE)
          /\ node.output.reason = JText("empty_ocr_output")
    /\ VerifyIdReadNothing =>
          /\ node.input.valid = JBool(FALSE)
          /\ Get(node.input, "reason") = JText("empty_ocr_output")
          /\ node.output.reason = JText("empty_ocr_output")

\* C23, amended: the Doctr Code node rejects a blank text with the reason
\* empty_ocr_output and a record without any field of the MRZ or raw_text;
\* /verify-id has no such check: it runs the card-number extraction on the
\* blank text and answers 422 with the reason card_number_not_found.
C23_EmptyTextByPath ==
    /\ DoctrReadNothing =>
          /\ node.output.valid = JBool(FALSE)
          /\ node.output.reason = JText("empty_ocr_output")
          /\ DOMAIN node.output = {"valid", "reason", "message", "page_count"}
    /\ VerifyIdReadNothing =>
          /\ node.status = 422
          /\ node.input.valid = JBool(FALSE)
          /\ Get(node.input, "reason") = JText("card_number_not_found")
          /\ Get(node.input, "method") = JText("tesseract_fallback")
          /\ node.output.reason = JText("card_number_not_found")
          /\ CardOfText[node.text] = JNull

\* /verify-id answered card_number_not_found on the empty text
C23_Witness ==
    /\ VerifyIdReadNothing
    /\ node.output.reason = JText("card_number_not_found")

\* the Doctr Code node answered empty_ocr_output on a text of white space
C23_WitnessDoctr ==
    /\ DoctrReadNothing
    /\ node.input.text.v # <<>>
    /\ node.output.reason = JText("empty_ocr_output")

\* the trimmed text has three consecutive candidate lines, the first of
\* which begins with "ID"
RefZoneFound(text) ==
    LET lines == SplitLines(text)
        c == SelectSeq([i \in 1..Len(lines) |-> normalizeLine(lines[i])], IsCandidate)
    IN  \E i \in 1..(Len(c) - 2) : c[i][1] = "I" /\ c[i][2] = "D"

\* the Doctr endpoint answered with a text that holds a TD1 zone
DoctrReadZone ==
    /\ Returned
    /\ node.kind = "doctr"
    /\ ~Truthy(Get(node.input, "error"))
    /\ ~RefBlank(node.input.text.v)
    /\ RefZoneFound(node.input.text.v)

\* C27: in the Doctr path a TD1 zone that is found gives valid: true with
\* method doctr_mrz, all_checksums_ok the conjunction of the three checks, and
\* confidence high exactly when it is true, medium otherwise: a failed check
\* digit alone is never a rejection.
C27_ChecksumsOnlyLowerConfidence ==
    /\ DoctrReadZone =>
          LET out == node.output
              all == /\ out.checksums.date_of_birth.v
                     /\ out.checksums.expiration_date.v
                     /\ out.checksums.composite.v
          IN  /\ out.valid = JBool(TRUE)
              /\ out.method = JText("doctr_mrz")
              /\ "reason" \notin DOMAIN out
              /\ out.all_checksums_ok = JBool(all)
              /\ out.checksums.all_ok = JBool(all)
              /\ out.confidence = IF all THEN JText("high") ELSE JText("medium")
    /\ (Returned /\ node.kind = "doctr" /\ node.output.valid = JBool(FALSE)) =>
          node.output.reason \in {JText("ocr_service_error"),
                                  JText("empty_ocr_output"),
                                  JText("mrz_not_found")}

\* a zone with a wrong check digit of the date of birth: valid, medium
C27_Witness ==
    /\ DoctrReadZone
    /\ node.output.valid = JBool(TRUE)
    /\ node.output.checksums.date_of_birth = JBool(FALSE)
    /\ node.output.all_checksums_ok = JBool(FALSE)
    /\ node.output.confidence = JText("medium")

-----------------------------------------------------------------------------
(* runPython(args, {timeoutMs}) of the Doctr service: one run of the worker *)

\* p.on("close") of runPython: clearTimeout, then JSON.parse(stdout.trim());
\* the promise is rejected when that throws or when the parsed value has a
\* truthy error field, and resolved with the parsed value otherwise. The exit
\* code is only quoted in the message of the non-JSON failure. stdout is the
\* sequence of the chunks written: "ok" a JSON object without an error field,
\* "err" a JSON object with one, "junk" other text, "nl" white space
PyClosed(p, code) ==
    LET q == [p EXCEPT !.timer = IF @ = "armed" THEN "cleared" ELSE @,
                       !.closed = TRUE, !.code = code]
        inner == {i \in 1..Len(p.stdout) : p.stdout[i] # "nl"}
        trimmed == IF inner = {} THEN <<>>
                   ELSE SubSeq(p.stdout, Min(inner), Max(inner))
    IN  IF trimmed = <<"ok">> THEN Settle(q, "fulfilled", "success")
        ELSE IF trimmed = <<"err">> THEN Settle(q, "rejected", "worker-error")
        ELSE Settle(q, "rejected", "non-json")

PyInit ==
    /\ sem = NewSemaphore(MAX_CONCURRENT_JOBS)
    /\ req = [c \in {} |-> IdleReq]
    /\ arrivals = <<>>
    /\ queuedEver = {}
    /\ grants = <<>>
    /\ proc = SpawnedProc @@ [stdout |-> <<>>, code |-> "none"]
    /\ node = [state |-> "unused"]

\* p.stdout.on("data"): stdout += d.toString()
OnPyStdoutData ==
    /\ ~proc.closed
    /\ proc.out < MaxChunks
    /\ \E ch \in {"ok", "err", "junk", "nl"} :
          proc' = [proc EXCEPT !.out = @ + 1, !.stdout = Append(@, ch)]
    /\ UNCHANGED <<sem, req, arrivals, queuedEver, grants, node>>

\* the 'close' event of the worker, once
OnPyClose ==
    /\ ~proc.closed
    /\ \E code \in ExitCodes :
          proc' = PyClosed(Seen(proc, IF code = "0" THEN "close0" ELSE "closeN"), code)
    /\ UNCHANGED <<sem, req, arrivals, queuedEver, grants, node>>

\* the stderr, 'error' and timer callbacks of runPython are those of run()
PyNext == OnPyStdoutData \/ OnStderrData \/ OnPyClose \/ OnError \/ OnTimer

SpecPython == PyInit /\ [][PyNext]_vars

\* C29: a process whose first terminal event is a close with a non-zero exit
\* status (or the null of a signal) is never reported as success, whatever it
\* wrote to stdout; stated for run() and runPython() alike.
C29_NonZeroExitIsNeverSuccess ==
    (proc.closed /\ proc.first = "closeN") => proc.promise # "fulfilled"

\* what runPython reports instead: success exactly when the first terminal
\* event is a close, with any code, after stdout held one JSON object without
\* an error field
PythonSuccessIsJsonAlone ==
    (proc.promise = "fulfilled") <=>
        /\ proc.first \in {"close0", "closeN"}
        /\ SelectSeq(proc.stdout, LAMBDA ch : ch # "nl") = <<"ok">>

-----------------------------------------------------------------------------
(* The MRZ helpers called on their own: parseMrzDate and parseMrzTD1        *)

\* a decimal digit as a character
RefDigit(n) == Chars("0123456789")[n + 1]

\* the check character of a field, by the reference of C20
RefCheck(data) == RefDigit(RefChecksum(data))

RefFillers(n) == [i \in 1..n |-> "<"]

\* the field values of synthetic identity cards: the dates are given as the
\* ISO date of the card and the six characters of the zone
RefCards == {Chars("D23145890"), Chars("X4RTBPFW4")}
RefCountries == {Chars("FRA"), Chars("DEU")}
RefBirths ==
    {[iso |-> Chars("1993-04-30"), mrz |-> Chars("930430")],
     [iso |-> Chars("2005-01-01"), mrz |-> Chars("050101")]}
RefExpiries ==
    {[iso |-> Chars("2030-06-27"), mrz |-> Chars("300627")],
     [iso |-> Chars("2033-06-27"), mrz |-> Chars("330627")]}
RefSurnames == {Chars("MARTIN"), Chars("DUPONT"), Chars("LEGALL")}
RefGivenNames ==
    {[text |-> Chars("ANNE"), mrz |-> Chars("ANNE")],
     [text |-> Chars("JEAN PIERRE"), mrz |-> Chars("JEAN<PIERRE")]}

RefFields ==
    [card : RefCards, country : RefCountries, sex : {"M", "F"},
     birth : RefBirths, expiry : RefExpiries,
     surname : RefSurnames, names : RefGivenNames]

\* the well-formed TD1 zone of a card: three lines of 30 characters with the
\* check digits of the document number, the two dates and the composite
RefEncodeTd1(f) ==
    LET l1 == Chars("ID") \o f.country \o f.card \o <<RefCheck(f.card)>>
              \o RefFillers(15)
        head == f.birth.mrz \o <<RefCheck(f.birth.mrz)>> \o <<f.sex>>
                \o f.expiry.mrz \o <<RefCheck(f.expiry.mrz)>>
                \o f.country \o RefFillers(11)
        all == SubSeq(l1, 6, 30) \o SubSeq(head, 1, 7) \o SubSeq(head, 9, 15)
               \o SubSeq(head, 19, 29)
        l2 == head \o <<RefCheck(all)>>
        name == f.surname \o Chars("<<") \o f.names.mrz
        l3 == name \o RefFillers(30 - Len(name))
    IN  l1 \o <<"\n">> \o l2 \o <<"\n">> \o l3

\* texts that are not the zone of a card: an "ID" line without a country code,
\* a zone after a foreign candidate line, two candidate lines only, an "ID"
\* line without a country code right before a zone, optional data in line 2
RefTexts ==
    {Chars("ID12<D231458907<<<<<<<<<<<<<<<\n9304309M3306275FRA<<<<<<<<<<<8\nMARTIN<<ANNE<<<<<<<<<<<<<<<<<<"),
     Chars("P<FRAMARTIN<<ANNE<<<<<<<<<<<<<\nIDFRAD231458907<<<<<<<<<<<<<<<\n9304309M3306275FRA<<<<<<<<<<<8\nMARTIN<<ANNE<<<<<<<<<<<<<<<<<<"),
     Chars("IDFRAD231458907<<<<<<<<<<<<<<<\n9304309M3306275FRA<<<<<<<<<<<8"),
     Chars("ID12<D231458907<<<<<<<<<<<<<<<\nIDFRAD231458907<<<<<<<<<<<<<<<\n9304309M3306275FRA<<<<<<<<<<<8\nMARTIN<<ANNE<<<<<<<<<<<<<<<<<<"),
     Chars("IDFRAD231458907<<<<<<<<<<<<<<<\n9304309M3306275FRA75K12345<<<1\nMARTIN<<ANNE<<<<<<<<<<<<<<<<<<"),
     Chars("Carte nationale\nNom: MARTIN")}

\* the mm and dd parts of the dates given to parseMrzDate
RefMonthDays == {Chars("0101"), Chars("0627"), Chars("1231")}

MrzInit ==
    /\ sem = NewSemaphore(MAX_CONCURRENT_JOBS)
    /\ req = [c \in {} |-> IdleReq]
    /\ arrivals = <<>>
    /\ queuedEver = {}
    /\ grants = <<>>
    /\ proc = [state |-> "unused"]
    /\ \/ \E f \in RefFields :
             node = [state |-> "called", kind |-> "card", fields |-> f,
                     input |-> RefEncodeTd1(f), output |-> JUndefined]
       \/ \E t \in RefTexts :
             node = [state |-> "called", kind |-> "text",
                     input |-> t, output |-> JUndefined]
       \/ \E yy \in 0..99, md \in RefMonthDays :
             node = [state |-> "called", kind |-> "date", year |-> yy,
                     input |-> TwoDigits(yy) \o md, output |-> JUndefined]

\* parseMrzTD1(rawText)
CallParseMrzTD1 ==
    /\ node.state = "called"
    /\ node.kind \in {"card", "text"}
    /\ node' = [node EXCEPT !.state = "returned", !.output = parseMrzTD1(node.input)]
    /\ UNCHANGED <<sem, req, arrivals, queuedEver, grants, proc>>

\* parseMrzDate(yymmdd)
CallParseMrzDate ==
    /\ node.state = "called"
    /\ node.kind = "date"
    /\ node' = [node EXCEPT !.state = "returned", !.output = parseMrzDate(node.input)]
    /\ UNCHANGED <<sem, req, arrivals, queuedEver, grants, proc>>

MrzNext == CallParseMrzTD1 \/ CallParseMrzDate

SpecMrz == MrzInit /\ [][MrzNext]_vars

\* C21: the zone of every synthetic card, encoded with correct check digits,
\* is decoded to the field values it was encoded from, with all_ok true.
C21_RoundTrip ==
    (Returned /\ node.kind = "card") =>
        /\ node.output # JNull
        /\ node.output.card_number = JStr(node.fields.card)
        /\ node.output.nationality = JStr(node.fields.country)
        /\ node.output.sex = JStr(<<node.fields.sex>>)
        /\ node.output.date_of_birth = JStr(node.fields.birth.iso)
        /\ node.output.expiration_date = JStr(node.fields.expiry.iso)
        /\ node.output.surname = JStr(node.fields.surname)
        /\ node.output.names = JStr(node.fields.names.text)
        /\ node.output.checksums.all_ok = JBool(TRUE)

\* the part of the round trip that does hold: the document number, the
\* country, the sex, the date of birth and the check digits
RoundTripOfNumbers ==
    (Returned /\ node.kind = "card") =>
        /\ node.output # JNull
        /\ node.output.card_number = JStr(node.fields.card)
        /\ node.output.nationality = JStr(node.fields.country)
        /\ node.output.sex = JStr(<<node.fields.sex>>)
        /\ node.output.date_of_birth = JStr(node.fields.birth.iso)
        /\ node.output.checksums.all_ok = JBool(TRUE)

\* C22: for every yy in 00..99, a six-digit date is read as the year 19yy
\* when yy > 30 and as 20yy when yy <= 30, its month and day unchanged.
C22_CenturyHeuristic ==
    (Returned /\ node.kind = "date") =>
        LET century == IF node.year > 30 THEN 1900 ELSE 2000
            year == century + node.year
            digits == <<RefDigit(year \div 1000), RefDigit((year \div 100) % 10),
                        RefDigit((year \div 10) % 10), RefDigit(year % 10)>>
        IN  node.output =
               JStr(digits \o <<"-">> \o SubSeq(node.input, 3, 4)
                           \o <<"-">> \o SubSeq(node.input, 5, 6))

\* the year 30 is read as 2030
C22_Witness ==
    /\ Returned
    /\ node.kind = "date"
    /\ node.year = 30
    /\ node.output = JStr(Chars("2030-06-27"))

\* the candidate lines of a text: normalised lines of 25 or more characters
\* of the MRZ alphabet
RefCandidates(text) ==
    LET lines == SplitLines(text)
    IN  SelectSeq([i \in 1..Len(lines) |-> normalizeLine(lines[i])], IsCandidate)

\* "ID" immediately followed by a three-letter country code
RefStartsWithIdAndCountry(l) ==
    /\ Len(l) >= 5
    /\ l[1] = "I" /\ l[2] = "D"
    /\ \A i \in 3..5 : l[i] \in Upper

\* the first triplets of consecutive candidates whose first line is accepted
RefAccepted(text) ==
    {i \in 1..(Len(RefCandidates(text)) - 2) :
        RefStartsWithIdAndCountry(RefCandidates(text)[i])}

\* C25: parseMrzTD1 returns the decoding of the first triplet of consecutive
\* candidate lines whose first line begins with "ID" and a three-letter
\* country code, and null when there is no such triplet.
C25_FirstTripletWithIdAndCountry ==
    (Returned /\ node.kind \in {"card", "text"}) =>
        LET c == RefCandidates(node.input)
            i == Min(RefAccepted(node.input))
        IN  IF RefAccepted(node.input) = {}
            THEN node.output = JNull
            ELSE node.output = Td1Record(c[i], c[i + 1], c[i + 2])

\* what the code does: any first line that begins with "ID" is accepted
FirstTripletWithId ==
    (Returned /\ node.kind \in {"card", "text"}) =>
        LET c == RefCandidates(node.input)
            S == {i \in 1..(Len(c) - 2) : c[i][1] = "I" /\ c[i][2] = "D"}
        IN  IF S = {} THEN node.output = JNull
            ELSE node.output = Td1Record(c[Min(S)], c[Min(S) + 1], c[Min(S) + 2])

\* the check digit read from line 2 agrees with the reference checksum of data
RefCompositeOk(data, l2) == JBool(RefChecksum(data) = RefInteger(<<l2[30]>>))

\* C26 as stated: the composite check digit is the checksum of line2[18:29],
\* line1[5:30], line2[0:7] and line2[8:15] concatenated in this order.
C26_CompositeOptionalDataFirst ==
    (Returned /\ node.kind \in {"card", "text"} /\ node.output # JNull) =>
        LET l1 == node.output.mrz_line1.v
            l2 == node.output.mrz_line2.v
        IN  node.output.checksums.composite =
               RefCompositeOk(SubSeq(l2, 19, 29) \o SubSeq(l1, 6, 30)
                              \o SubSeq(l2, 1, 7) \o SubSeq(l2, 9, 15), l2)

\* C26, amended: the composite check digit is the checksum of line1[5:30],
\* line2[0:7], line2[8:15] and line2[18:29] concatenated in this order,
\* compared with line2[29].
C26_CompositeInZoneOrder ==
    (Returned /\ node.kind \in {"card", "text"} /\ node.output # JNull) =>
        LET l1 == node.output.mrz_line1.v
            l2 == node.output.mrz_line2.v
        IN  node.output.checksums.composite =
               RefCompositeOk(SubSeq(l1, 6, 30) \o SubSeq(l2, 1, 7)
                              \o SubSeq(l2, 9, 15) \o SubSeq(l2, 19, 29), l2)

\* a zone with optional data in line 2 whose composite digit is right
C26_Witness ==
    /\ Returned
    /\ node.kind = "text"
    /\ node.output # JNull
    /\ SubSeq(node.output.mrz_line2.v, 19, 29) = Chars("75K12345<<<")
    /\ node.output.checksums.composite = JBool(TRUE)

====
